---------------------------- MODULE Spec2Model ----------------------------
(***************************************************************************)
(* Model of the tolerant A2A message client of nanda-agent                 *)
(* (src/nanda-agent1/agents1/python_a2a.py): the response normalizer       *)
(* _extract_text_and_conv, the endpoint fallback loop A2AClient._try_post  *)
(* and the boundary A2AClient.send_message.                                *)
(*                                                                         *)
(* Python values are tagged records (t is the Python type); a Python str   *)
(* is a sequence of one-character strings, so that strip(), rstrip(),      *)
(* endswith(), lower(), "in" and f-string formatting are computed.         *)
(***************************************************************************)
EXTENDS Integers, Sequences, FiniteSets, TLC

VARIABLES
    base_url,     \* A2AClient.base_url (after the constructor's rstrip)
    message,      \* the outbound Message handed to send_message
    pc,           \* position of the call being modelled
    candidates,   \* _try_post: the candidate list
    idx,          \* _try_post: 1-based position of the for loop in candidates
    last_err,     \* _try_post: last_err
    attempts,     \* history of the requests.post calls made (url and outcome)
    data,         \* the payload handed to _extract_text_and_conv
    result,       \* outcome of _extract_text_and_conv (a reply or an exception)
    raised,       \* the exception that reached send_message's except clauses
    reply,        \* the _A2AResponse returned by send_message
    threads,      \* concurrent calls on one client: the frame of each call
    timeout,      \* A2AClient.timeout
    sent,         \* number of send_message calls made one after the other
    ui_req,       \* /api/send: request.json
    ui_env,       \* /api/send: what the services called by the handler answer
    ui_pc,        \* /api/send: position of the handler
    ui_calls,     \* /api/send: the service calls the handler made, in order
    ui_resp,      \* /api/send: the response returned
    q_ticker,     \* quote: the argument ticker
    q_pc,         \* quote: position of the call
    q_price,      \* quote: price
    q_prev,       \* quote: prev
    q_log,        \* quote: the providers consulted and what each supplied
    q_out,        \* quote: the text returned
    slot_file,    \* latest_message.json: <<>> when absent, or <<file, content>>
    slot_recv,    \* /api/receive_message: the frame of each request
    slot_rend,    \* /api/render: the frame of each request
    slot_log,     \* history of the removals of latest_message.json
    sse_queue,    \* client_queues[client_id]['queue']
    sse_event,    \* client_queues[client_id]['event']: set or not
    sse_gen,      \* /api/messages/stream: position of the generator
    sse_adders,   \* add_message_to_queue: position of each call
    sse_yielded,  \* the messages the generator has yielded, in order
    reg_args,     \* _register_with_registry: the arguments
    reg_pc,       \* _register_with_registry: position of the call
    reg_attempt,  \* _register_with_registry: attempt
    reg_path,     \* _register_with_registry: 1-based position in paths
    reg_posts,    \* history of the requests.post and time.sleep calls
    reg_ret       \* _register_with_registry: "none", or the value returned

\* python_a2a.py
clientVars ==
    <<base_url, message, pc, candidates, idx, last_err, attempts, data, result,
      raised, reply, threads, timeout, sent>>

\* run_ui_agent_https.py: send_message (/api/send)
uiVars == <<ui_req, ui_env, ui_pc, ui_calls, ui_resp>>

\* stock_service.py: quote
quoteVars == <<q_ticker, q_pc, q_price, q_prev, q_log, q_out>>

\* run_ui_agent_https.py: receive_message and render_on_ui
slotVars == <<slot_file, slot_recv, slot_rend, slot_log>>

\* run_ui_agent_https.py: add_message_to_queue and stream_messages
sseVars == <<sse_queue, sse_event, sse_gen, sse_adders, sse_yielded>>

\* run_ui_agent_https.py: _register_with_registry
regVars == <<reg_args, reg_pc, reg_attempt, reg_path, reg_posts, reg_ret>>

\* What a step of the A2A client leaves alone.
serviceVars == <<uiVars, quoteVars, slotVars, sseVars, regVars>>

\* What a step of each of the other parts leaves alone.
exceptUi == <<clientVars, quoteVars, slotVars, sseVars, regVars>>

exceptQuote == <<clientVars, uiVars, slotVars, sseVars, regVars>>

exceptSlot == <<clientVars, uiVars, quoteVars, sseVars, regVars>>

exceptSse == <<clientVars, uiVars, quoteVars, slotVars, regVars>>

exceptReg == <<clientVars, uiVars, quoteVars, slotVars, sseVars>>

vars == <<clientVars, serviceVars>>

----------------------------------------------------------------------------
(* Bounds of the model *)

\* Largest number of top-level keys of a response mapping handed to the
\* normalizer on its own.
MaxKeys == 3

\* Largest number of top-level keys of a JSON body answered to a send.
MaxBodyKeys == 1

\* Number of calls made concurrently on one client.
MaxCalls == 2

----------------------------------------------------------------------------
(* Python values *)

EmptyD == [k \in {} |-> 0]

PyVal(ty, sv, nv, lv, dv) == [t |-> ty, s |-> sv, n |-> nv, l |-> lv, d |-> dv]

NoneV == PyVal("none", <<>>, 0, <<>>, EmptyD)

Str(s) == PyVal("str", s, 0, <<>>, EmptyD)

IntV(n) == PyVal("int", <<>>, n, <<>>, EmptyD)

ListV(l) == PyVal("list", <<>>, 0, l, EmptyD)

Dict(d) == PyVal("dict", <<>>, 0, <<>>, d)

IsStr(v) == v.t = "str"

IsDict(v) == v.t = "dict"

IsList(v) == v.t = "list"

\* Python truthiness (bool(v)).
Truthy(v) ==
    CASE v.t = "none" -> FALSE
      [] v.t = "str" -> Len(v.s) > 0
      [] v.t = "int" -> v.n # 0
      [] v.t = "list" -> Len(v.l) > 0
      [] v.t = "dict" -> DOMAIN v.d # {}

\* a or b
PyOr(a, b) == IF Truthy(a) THEN a ELSE b

\* d.get(k) on a dict value d
Get(d, k) == IF k \in DOMAIN d.d THEN d.d[k] ELSE NoneV

\* type(v).__name__
TypeName(v) ==
    CASE v.t = "none" -> <<"N", "o", "n", "e", "T", "y", "p", "e">>
      [] v.t = "str" -> <<"s", "t", "r">>
      [] v.t = "int" -> <<"i", "n", "t">>
      [] v.t = "list" -> <<"l", "i", "s", "t">>
      [] v.t = "dict" -> <<"d", "i", "c", "t">>

----------------------------------------------------------------------------
(* Python str operations *)

Whitespace == {" ", "\t", "\n", "\r"}

RECURSIVE LStripWs(_)
LStripWs(s) ==
    IF s # <<>> /\ Head(s) \in Whitespace THEN LStripWs(Tail(s)) ELSE s

RECURSIVE RStripSet(_, _)
RStripSet(s, cs) ==
    IF s # <<>> /\ s[Len(s)] \in cs THEN RStripSet(SubSeq(s, 1, Len(s) - 1), cs) ELSE s

\* s.strip()
Strip(s) == RStripSet(LStripWs(s), Whitespace)

\* s.endswith(suffix)
EndsWith(s, suffix) ==
    /\ Len(suffix) <= Len(s)
    /\ SubSeq(s, Len(s) - Len(suffix) + 1, Len(s)) = suffix

\* s.startswith(prefix)
StartsWith(s, prefix) ==
    /\ Len(prefix) <= Len(s)
    /\ SubSeq(s, 1, Len(prefix)) = prefix

\* sub in s
Contains(sub, s) ==
    \E i \in 0..(Len(s) - Len(sub)) : SubSeq(s, i + 1, i + Len(sub)) = sub

LowerChar(c) ==
    CASE c = "A" -> "a"
      [] c = "B" -> "b"
      [] c = "C" -> "c"
      [] c = "D" -> "d"
      [] c = "E" -> "e"
      [] c = "F" -> "f"
      [] c = "G" -> "g"
      [] c = "H" -> "h"
      [] c = "I" -> "i"
      [] c = "J" -> "j"
      [] c = "K" -> "k"
      [] c = "L" -> "l"
      [] c = "M" -> "m"
      [] c = "N" -> "n"
      [] c = "O" -> "o"
      [] c = "P" -> "p"
      [] c = "Q" -> "q"
      [] c = "R" -> "r"
      [] c = "S" -> "s"
      [] c = "T" -> "t"
      [] c = "U" -> "u"
      [] c = "V" -> "v"
      [] c = "W" -> "w"
      [] c = "X" -> "x"
      [] c = "Y" -> "y"
      [] c = "Z" -> "z"
      [] OTHER -> c

\* s.lower()
Lower(s) == [i \in 1..Len(s) |-> LowerChar(s[i])]

Digits == <<"0", "1", "2", "3", "4", "5", "6", "7", "8", "9">>

RECURSIVE NatToStr(_)
NatToStr(n) ==
    IF n < 10 THEN <<Digits[n + 1]>> ELSE NatToStr(n \div 10) \o <<Digits[(n % 10) + 1]>>

\* str(n) of an int
IntToStr(n) == IF n < 0 THEN <<"-">> \o NatToStr(0 - n) ELSE NatToStr(n)

KeyChars(k) ==
    CASE k = "conversation_id" -> <<"c", "o", "n", "v", "e", "r", "s", "a", "t", "i", "o", "n", "_", "i", "d">>
      [] k = "metadata" -> <<"m", "e", "t", "a", "d", "a", "t", "a">>
      [] k = "content" -> <<"c", "o", "n", "t", "e", "n", "t">>
      [] k = "response" -> <<"r", "e", "s", "p", "o", "n", "s", "e">>
      [] k = "text" -> <<"t", "e", "x", "t">>
      [] k = "message" -> <<"m", "e", "s", "s", "a", "g", "e">>
      [] k = "parts" -> <<"p", "a", "r", "t", "s">>
      [] k = "error" -> <<"e", "r", "r", "o", "r">>
      [] k = "detail" -> <<"d", "e", "t", "a", "i", "l">>
      [] k = "description" -> <<"d", "e", "s", "c", "r", "i", "p", "t", "i", "o", "n">>
      [] k = "errors" -> <<"e", "r", "r", "o", "r", "s">>
      [] k = "title" -> <<"t", "i", "t", "l", "e">>
      [] k = "type" -> <<"t", "y", "p", "e">>
      [] k = "_http_status" -> <<"_", "h", "t", "t", "p", "_", "s", "t", "a", "t", "u", "s">>

\* The order in which a mapping's keys are written by str(dict): the keys of
\* the mappings of this model are taken to have been inserted in this order
\* (_http_status, which _try_post adds with setdefault, comes last).
KeyOrder ==
    <<"conversation_id", "metadata", "content", "response", "text", "message",
      "parts", "error", "detail", "description", "errors", "title", "type",
      "_http_status">>

InDomain(d, k) == k \in DOMAIN d

OrderedKeys(d) == SelectSeq(KeyOrder, LAMBDA k : InDomain(d, k))

\* repr of one character of a str (the strings of this model hold no quote)
ReprChar(c) ==
    CASE c = "\t" -> <<"\\", "t">>
      [] c = "\n" -> <<"\\", "n">>
      [] c = "\r" -> <<"\\", "r">>
      [] c = "\\" -> <<"\\", "\\">>
      [] OTHER -> <<c>>

RECURSIVE ReprChars(_)
ReprChars(s) == IF s = <<>> THEN <<>> ELSE ReprChar(Head(s)) \o ReprChars(Tail(s))

\* repr(v): what an f-string writes for a value that is not a str
RECURSIVE Repr(_), ReprSeq(_), ReprItems(_, _)
Repr(v) ==
    CASE v.t = "none" -> <<"N", "o", "n", "e">>
      [] v.t = "str" -> <<"'">> \o ReprChars(v.s) \o <<"'">>
      [] v.t = "int" -> IntToStr(v.n)
      [] v.t = "list" -> <<"[">> \o ReprSeq(v.l) \o <<"]">>
      [] v.t = "dict" -> <<"{">> \o ReprItems(v.d, OrderedKeys(v.d)) \o <<"}">>

ReprSeq(l) ==
    IF l = <<>> THEN <<>>
    ELSE IF Len(l) = 1 THEN Repr(l[1])
    ELSE Repr(l[1]) \o <<",", " ">> \o ReprSeq(Tail(l))

ReprItems(d, ks) ==
    IF ks = <<>> THEN <<>>
    ELSE LET item == <<"'">> \o KeyChars(ks[1]) \o <<"'", ":", " ">> \o Repr(d[ks[1]])
         IN  IF Len(ks) = 1 THEN item ELSE item \o <<",", " ">> \o ReprItems(d, Tail(ks))

\* str(v): what an f-string writes for {v}
Format(v) == IF IsStr(v) THEN v.s ELSE Repr(v)

----------------------------------------------------------------------------
(* _A2AResponse, and the outcome of a call: a returned reply or an exception *)

A2AResponse(tx, conv) == [text |-> tx, conversation_id |-> conv]

NoReply == A2AResponse(<<>>, NoneV)

Exc(c, m) == [cls |-> c, msg |-> m]

NoExc == Exc(<<>>, <<>>)

Returned(r) == [ok |-> TRUE, resp |-> r, exc |-> NoExc]

Raised(e) == [ok |-> FALSE, resp |-> NoReply, exc |-> e]

NoResult == [ok |-> FALSE, resp |-> NoReply, exc |-> NoExc]

\* <non-dict>.get: AttributeError("'<type>' object has no attribute 'get'")
AttributeErrorGet(v) ==
    Exc(<<"A", "t", "t", "r", "i", "b", "u", "t", "e", "E", "r", "r", "o", "r">>,
        <<"'">> \o TypeName(v) \o
        <<"'", " ", "o", "b", "j", "e", "c", "t", " ", "h", "a", "s", " ", "n", "o", " ",
          "a", "t", "t", "r", "i", "b", "u", "t", "e", " ", "'", "g", "e", "t", "'">>)

----------------------------------------------------------------------------
(* _extract_text_and_conv *)

ErrorPrefix == <<"[", "e", "r", "r", "o", "r", "]", " ">>

Hit(tx) == [text |-> tx, hit |-> TRUE]

Miss == [text |-> <<>>, hit |-> FALSE]

\* First hit of a sequence of rule results, Miss when there is none.
FirstHit(rs) ==
    LET hits == {i \in 1..Len(rs) : rs[i].hit}
    IN  IF hits = {} THEN Miss
        ELSE rs[CHOOSE i \in hits : \A j \in hits : i <= j]

\* Faulty variant of ConvOf: the id nested under metadata is preferred to the
\* top-level one.
ConvOf_MetadataFirst(d, fallback_conv) ==
    LET md == Get(d, "metadata")
        c0 == IF IsDict(md) THEN Get(md, "conversation_id") ELSE NoneV
        c1 == IF ~Truthy(c0) THEN Get(d, "conversation_id") ELSE c0
    IN  IF ~Truthy(c1) THEN fallback_conv ELSE c1

\* conv: top-level -> metadata.conversation_id -> fallback
ConvOf(d, fallback_conv) ==
    LET c0 == Get(d, "conversation_id")
        md == Get(d, "metadata")
        c1 == IF ~Truthy(c0)
              THEN (IF IsDict(md) THEN Get(md, "conversation_id") ELSE c0)
              ELSE c0
    IN  IF ~Truthy(c1) THEN fallback_conv ELSE c1

\* 1) content.text, or content itself when it is a str
TextFromContent(d) ==
    LET c == Get(d, "content")
    IN  IF IsDict(c) /\ IsStr(Get(c, "text")) THEN Hit(Get(c, "text").s)
        ELSE IF IsStr(c) THEN Hit(c.s)
        ELSE Miss

TopLevelKeys == <<"response", "text", "message">>

\* Faulty order of the keys: text before response.
TopLevelKeys_TextFirst == <<"text", "response", "message">>

\* one iteration of the loop: the value under k if it is a str
TextOfKey(d, k) == IF IsStr(Get(d, k)) THEN Hit(Get(d, k).s) ELSE Miss

\* the loop over the keys ks: the first key whose value is a str
TextFromTopLevelOver(d, ks) == FirstHit([i \in 1..Len(ks) |-> TextOfKey(d, ks[i])])

\* Faulty variant of TextFromTopLevel: text is scanned before response.
TextFromTopLevel_TextFirst(d) == TextFromTopLevelOver(d, TopLevelKeys_TextFirst)

\* 2) top-level response / text / message
TextFromTopLevel(d) == TextFromTopLevelOver(d, TopLevelKeys)

\* 3) parts[0].text
TextFromParts(d) ==
    LET parts == Get(d, "parts")
    IN  IF IsList(parts) /\ Truthy(parts)
        THEN LET first == parts.l[1]
             IN  IF IsDict(first) /\ IsStr(Get(first, "text"))
                 THEN Hit(Get(first, "text").s)
                 ELSE Miss
        ELSE Miss

\* Faulty variant of UsableStr: a blank string is accepted.
UsableStr_NoStrip(v) == IsStr(v)

\* isinstance(msg, str) and msg.strip()
UsableStr(v) == IsStr(v) /\ Strip(v.s) # <<>>

\* Faulty variant of ErrorText: the error marker is left out.
ErrorText_NoMarker(v) == Hit(v.s)

\* f"[error] {v}"
ErrorText(v) == Hit(ErrorPrefix \o v.s)

ErrorKeys == <<"error", "detail", "description">>

\* one iteration of the loop over error / detail / description
TextOfErrorKey(d, key) ==
    LET v == Get(d, key)
    IN  IF UsableStr(v) THEN ErrorText(v)
        ELSE IF IsDict(v)
        THEN LET msg == PyOr(Get(v, "message"), Get(v, "text"))
             IN  IF UsableStr(msg) THEN ErrorText(msg) ELSE Miss
        ELSE Miss

\* 4) error / detail / description
TextFromErrorKeys(d) ==
    FirstHit([i \in 1..Len(ErrorKeys) |-> TextOfErrorKey(d, ErrorKeys[i])])

\* 4) errors[0]
TextFromErrors(d) ==
    LET errs == Get(d, "errors")
    IN  IF IsList(errs) /\ Truthy(errs)
        THEN LET first == errs.l[1]
                 msg == PyOr(PyOr(Get(first, "message"), Get(first, "detail")),
                             Get(first, "title"))
             IN  IF IsDict(first) /\ UsableStr(msg) THEN ErrorText(msg)
                 ELSE IF UsableStr(first) THEN ErrorText(first)
                 ELSE Miss
        ELSE Miss

\* 5) the payload itself is a str
TextFromBareString(d) == IF IsStr(d) THEN Hit(d.s) ELSE Miss

StatusPrefix == <<"(", "A", "2", "A", ")", " ", "H", "T", "T", "P", " ">>

BodyInfix == <<",", " ", "b", "o", "d", "y", ":", " ">>

UnexpectedPrefix ==
    <<"(", "A", "2", "A", ")", " ", "u", "n", "e", "x", "p", "e", "c", "t", "e", "d", " ",
      "r", "e", "s", "p", "o", "n", "s", "e", ":", " ">>

\* 6) fallback carrying the status code, if any
TextFromStatus(d) ==
    LET status == Get(d, "_http_status")
    IN  IF Truthy(status)
        THEN Hit(StatusPrefix \o Format(status) \o BodyInfix \o Format(d))
        ELSE Miss

\* nothing matched: echo the payload
TextUnexpected(d) == UnexpectedPrefix \o Format(d)

\* Faulty variant of ExtractText: response / text / message are looked at
\* before content.
ExtractText_TopLevelFirst(d) ==
    LET r1 == TextFromTopLevel(d)
        r2 == TextFromContent(d)
        r3 == TextFromParts(d)
        r4 == TextFromErrorKeys(d)
        r5 == TextFromErrors(d)
        r6 == TextFromBareString(d)
        r7 == TextFromStatus(d)
    IN  IF r1.hit THEN r1.text
        ELSE IF r2.hit THEN r2.text
        ELSE IF r3.hit THEN r3.text
        ELSE IF r4.hit THEN r4.text
        ELSE IF r5.hit THEN r5.text
        ELSE IF r6.hit THEN r6.text
        ELSE IF r7.hit THEN r7.text
        ELSE TextUnexpected(d)

\* Faulty variant of ExtractText: the error-shaped fields are looked at before
\* parts.
ExtractText_ErrorsBeforeParts(d) ==
    LET r1 == TextFromContent(d)
        r2 == TextFromTopLevel(d)
        r3 == TextFromErrorKeys(d)
        r4 == TextFromErrors(d)
        r5 == TextFromParts(d)
        r6 == TextFromBareString(d)
        r7 == TextFromStatus(d)
    IN  IF r1.hit THEN r1.text
        ELSE IF r2.hit THEN r2.text
        ELSE IF r3.hit THEN r3.text
        ELSE IF r4.hit THEN r4.text
        ELSE IF r5.hit THEN r5.text
        ELSE IF r6.hit THEN r6.text
        ELSE IF r7.hit THEN r7.text
        ELSE TextUnexpected(d)

\* The text of the reply for a mapping: the rules in the order of the code.
ExtractText(d) ==
    LET r1 == TextFromContent(d)
        r2 == TextFromTopLevel(d)
        r3 == TextFromParts(d)
        r4 == TextFromErrorKeys(d)
        r5 == TextFromErrors(d)
        r6 == TextFromBareString(d)
        r7 == TextFromStatus(d)
    IN  IF r1.hit THEN r1.text
        ELSE IF r2.hit THEN r2.text
        ELSE IF r3.hit THEN r3.text
        ELSE IF r4.hit THEN r4.text
        ELSE IF r5.hit THEN r5.text
        ELSE IF r6.hit THEN r6.text
        ELSE IF r7.hit THEN r7.text
        ELSE TextUnexpected(d)

\* _extract_text_and_conv(data, fallback_conv): data.get raises AttributeError
\* on the first line when data is not a mapping.
ExtractTextAndConv(d, fallback_conv) ==
    IF ~IsDict(d) THEN Raised(AttributeErrorGet(d))
    ELSE Returned(A2AResponse(ExtractText(d), ConvOf(d, fallback_conv)))

----------------------------------------------------------------------------
(* The outbound Message and the inputs of the normalizer *)

Message(conv) ==
    [text |-> <<"h", "i">>, conversation_id |-> conv, role |-> "user",
     metadata |-> NoneV, parent_message_id |-> NoneV, message_id |-> NoneV]

\* send_message: the payload handed to _try_post, built from the Message.
Payload(msg) ==
    [text |-> msg.text, conversation_id |-> msg.conversation_id, role |-> msg.role,
     metadata |-> PyOr(msg.metadata, Dict(EmptyD)),
     parent_message_id |-> msg.parent_message_id, message_id |-> msg.message_id]

\* Message.conversation_id: Optional[str]
OutboundConvs == {NoneV, Str(<<"c", "1">>)}

D1(k, v) == Dict(k :> v)

D2(k1, v1, k2, v2) == Dict((k1 :> v1) @@ (k2 :> v2))

\* The values a key of a response mapping takes in this model.
ValsOf(k) ==
    CASE k = "conversation_id" -> {Str(<<>>), Str(<<"c", "2">>), IntV(7)}
      [] k = "metadata" ->
            {Str(<<"m">>), D1("conversation_id", Str(<<"c", "3">>)),
             D1("conversation_id", Str(<<>>))}
      [] k = "content" ->
            {Str(<<"a">>), D1("text", Str(<<"b">>)), D1("text", IntV(1)), IntV(1)}
      [] k = "response" -> {Str(<<>>), Str(<<"r">>), IntV(1)}
      [] k = "text" -> {Str(<<"t">>), NoneV}
      [] k = "message" -> {Str(<<"m">>), ListV(<<>>)}
      [] k = "parts" ->
            {ListV(<<>>), ListV(<<D1("text", Str(<<"p">>))>>),
             ListV(<<D1("type", Str(<<"x">>)), D1("text", Str(<<"q">>))>>),
             ListV(<<Str(<<"p">>)>>), D1("text", Str(<<"p">>))}
      [] k = "error" ->
            {Str(<<"e">>), Str(<<" ">>), Str(<<>>), D1("message", Str(<<"m">>)),
             D2("message", Str(<<" ">>), "text", Str(<<"t">>)),
             D1("text", Str(<<"t">>))}
      [] k = "detail" ->
            {Str(<<"d">>), Str(<<"\t">>), D2("message", IntV(5), "text", Str(<<"t">>))}
      [] k = "description" -> {Str(<<"s">>), Dict(EmptyD)}
      [] k = "errors" ->
            {ListV(<<>>), ListV(<<D1("message", Str(<<"x">>))>>),
             ListV(<<D2("message", Str(<<>>), "detail", Str(<<"y">>))>>),
             ListV(<<D2("message", Str(<<" ">>), "title", Str(<<"z">>))>>),
             ListV(<<Str(<<"w">>)>>), ListV(<<Str(<<" ">>)>>)}
      [] k = "_http_status" -> {IntV(0), IntV(200), IntV(404)}

ResponseKeys ==
    {"conversation_id", "metadata", "content", "response", "text", "message",
     "parts", "error", "detail", "description", "errors", "_http_status"}

\* The mappings with exactly the keys K.
RECURSIVE MappingsOver(_)
MappingsOver(K) ==
    IF K = {} THEN {EmptyD}
    ELSE LET k == CHOOSE x \in K : TRUE
         IN  {(k :> v) @@ f : v \in ValsOf(k), f \in MappingsOver(K \ {k})}

\* The sets of at most n keys among keys.
KeySets(keys, n) == {X \in SUBSET keys : Cardinality(X) <= n}

\* Payloads that are not mappings (a JSON string, list, number or null).
NonMappings ==
    {Str(<<"s">>), ListV(<<>>), ListV(<<Str(<<"s">>)>>),
     ListV(<<D1("conversation_id", Str(<<"c", "2">>))>>), IntV(3), NoneV}

----------------------------------------------------------------------------
(* A2AClient *)

\* A2AClient.__init__: timeout: int = 60
DefaultTimeout == 60

\* A2AClient.__init__: self.base_url = (base_url or "").rstrip("/")
ClientBaseUrl(arg) == RStripSet(PyOr(arg, Str(<<>>)).s, {"/"})

A2ASuffix == <<"/", "a", "2", "a">>

\* Faulty variant of Candidates: the bare base address comes first.
Candidates_BareFirst(base) ==
    <<base>>
    \o (IF ~EndsWith(base, A2ASuffix) THEN <<base \o A2ASuffix>> ELSE <<>>)
    \o <<base \o <<"/", "s", "e", "n", "d">>,
         base \o <<"/", "m", "e", "s", "s", "a", "g", "e">>,
         base \o <<"/", "m", "e", "s", "s", "a", "g", "e", "s">>>>

\* Faulty variant of Candidates: base + /a2a is a candidate also when the base
\* already ends with /a2a.
Candidates_AlwaysA2A(base) ==
    <<base \o A2ASuffix, base>>
    \o <<base \o <<"/", "s", "e", "n", "d">>,
         base \o <<"/", "m", "e", "s", "s", "a", "g", "e">>,
         base \o <<"/", "m", "e", "s", "s", "a", "g", "e", "s">>>>

\* _try_post: the candidate list
Candidates(base) ==
    (IF ~EndsWith(base, A2ASuffix) THEN <<base \o A2ASuffix>> ELSE <<>>)
    \o <<base,
         base \o <<"/", "s", "e", "n", "d">>,
         base \o <<"/", "m", "e", "s", "s", "a", "g", "e">>,
         base \o <<"/", "m", "e", "s", "s", "a", "g", "e", "s">>>>

\* A requests.Response as the code reads it: status_code, the Content-Type
\* header (None when absent), text, and json() (a decoded value, or raising).
JsonOk(v) == [v |-> v, ok |-> TRUE]

JsonFails == [v |-> NoneV, ok |-> FALSE]

Response(sc, ct, tx, js) ==
    [text |-> tx, status_code |-> sc, content_type |-> ct, json |-> js]

NoResponse == Response(0, NoneV, <<>>, JsonFails)

\* data.setdefault(k, v)
SetDefault(d, k, v) == IF k \in DOMAIN d.d THEN d ELSE Dict((k :> v) @@ d.d)

JsonMime == <<"a", "p", "p", "l", "i", "c", "a", "t", "i", "o", "n", "/", "j", "s", "o", "n">>

\* Faulty variant of ParseResponse: the body is decoded only when the content
\* type is exactly application/json.
ParseResponse_ExactMime(r) ==
    LET ctype == Lower(PyOr(r.content_type, Str(<<>>)).s)
        wrapped == D1("response", Str(r.text))
        decoded == IF ctype = JsonMime
                   THEN (IF r.json.ok THEN r.json.v ELSE wrapped)
                   ELSE wrapped
    IN  IF IsDict(decoded)
        THEN SetDefault(decoded, "_http_status", IntV(r.status_code))
        ELSE decoded

\* _try_post, after requests.post returned r: the payload it returns
ParseResponse(r) ==
    LET ctype == Lower(PyOr(r.content_type, Str(<<>>)).s)
        wrapped == D1("response", Str(r.text))
        decoded == IF Contains(JsonMime, ctype)
                   THEN (IF r.json.ok THEN r.json.v ELSE wrapped)
                   ELSE wrapped
    IN  IF IsDict(decoded)
        THEN SetDefault(decoded, "_http_status", IntV(r.status_code))
        ELSE decoded

\* The outcome of one requests.post call: an exception or a response.
PostRaised(e) == [resp |-> NoResponse, exc |-> e, kind |-> "raise"]

PostReturned(r) == [resp |-> r, exc |-> NoExc, kind |-> "response"]

\* What _try_post does after the requests.post call on candidate i of n, with
\* last_err as it stands: go on to the next candidate, return data, or raise.
TryPostGoOn(lerr) == [last_err |-> lerr, data |-> NoneV, next |-> "continue"]

TryPostReturn(lerr, d) == [last_err |-> lerr, data |-> d, next |-> "return"]

TryPostRaise(lerr) == [last_err |-> lerr, data |-> NoneV, next |-> "raise"]

\* The end of the for loop: if last_err: raise last_err; return None
TryPostEnd(lerr) == IF lerr # NoExc THEN TryPostRaise(lerr) ELSE TryPostReturn(lerr, NoneV)

\* Faulty variant of TryPostStep: last_err keeps the first exception.
TryPostStep_KeepFirstErr(o, i, n, lerr) ==
    LET kept == IF lerr = NoExc THEN o.exc ELSE lerr
    IN  IF o.kind = "raise"
        THEN (IF i < n THEN TryPostGoOn(kept) ELSE TryPostEnd(kept))
        ELSE TryPostReturn(lerr, ParseResponse(o.resp))

\* Faulty variant of TryPostStep: a response with status 400 or above makes
\* the loop go on to the next candidate.
TryPostStep_RetryOnErrorStatus(o, i, n, lerr) ==
    IF o.kind = "raise"
    THEN (IF i < n THEN TryPostGoOn(o.exc) ELSE TryPostEnd(o.exc))
    ELSE IF o.resp.status_code >= 400
    THEN (IF i < n THEN TryPostGoOn(lerr) ELSE TryPostEnd(lerr))
    ELSE TryPostReturn(lerr, ParseResponse(o.resp))

\* except Exception as e: last_err = e; continue -- or return data
TryPostStep(o, i, n, lerr) ==
    IF o.kind = "raise"
    THEN (IF i < n THEN TryPostGoOn(o.exc) ELSE TryPostEnd(o.exc))
    ELSE TryPostReturn(lerr, ParseResponse(o.resp))

\* Exception classes of the model; all derive from Exception.
ConnectionErrorCls == <<"C", "o", "n", "n", "e", "c", "t", "i", "o", "n", "E", "r", "r", "o", "r">>

ReadTimeoutCls == <<"R", "e", "a", "d", "T", "i", "m", "e", "o", "u", "t">>

ConnectTimeoutCls == <<"C", "o", "n", "n", "e", "c", "t", "T", "i", "m", "e", "o", "u", "t">>

TimeoutCls == <<"T", "i", "m", "e", "o", "u", "t">>

AttributeErrorCls == <<"A", "t", "t", "r", "i", "b", "u", "t", "e", "E", "r", "r", "o", "r">>

\* Faulty variant of IsTimeout: the subclasses of Timeout are not matched.
IsTimeout_ExactClass(e) == e.cls = TimeoutCls

\* except requests.Timeout: the class and its subclasses
IsTimeout(e) == e.cls \in {TimeoutCls, ReadTimeoutCls, ConnectTimeoutCls}

\* except Exception
IsException(e) ==
    e.cls \in {TimeoutCls, ReadTimeoutCls, ConnectTimeoutCls, ConnectionErrorCls,
               AttributeErrorCls}

TimeoutText ==
    <<"[", "e", "r", "r", "o", "r", "]", " ", "r", "e", "q", "u", "e", "s", "t", " ",
      "t", "i", "m", "e", "o", "u", "t">>

\* f"[error] {type(e).__name__}: {e}"
ExceptionText(e) == ErrorPrefix \o e.cls \o <<":", " ">> \o e.msg

\* Faulty variant of SendMessageExcept: no except Exception clause.
SendMessageExcept_TimeoutOnly(e, conv) ==
    IF IsTimeout(e) THEN Returned(A2AResponse(TimeoutText, conv))
    ELSE Raised(e)

\* Faulty variant of SendMessageExcept: the error replies carry no
\* conversation id.
SendMessageExcept_DropConv(e, conv) ==
    IF IsTimeout(e) THEN Returned(A2AResponse(TimeoutText, NoneV))
    ELSE IF IsException(e) THEN Returned(A2AResponse(ExceptionText(e), NoneV))
    ELSE Raised(e)

\* send_message's except clauses, for an exception e raised in its try block
SendMessageExcept(e, conv) ==
    IF IsTimeout(e) THEN Returned(A2AResponse(TimeoutText, conv))
    ELSE IF IsException(e) THEN Returned(A2AResponse(ExceptionText(e), conv))
    ELSE Raised(e)

\* send_message from the point where _try_post returned or raised (tp):
\* the normalizer's outcome, the exception that reached the except clauses,
\* and the outcome of the call.
SendMessageFinish(tp, conv) ==
    LET norm == IF tp.next = "return" THEN ExtractTextAndConv(tp.data, conv) ELSE NoResult
        exc == IF tp.next = "raise" THEN tp.last_err
               ELSE IF ~norm.ok THEN norm.exc
               ELSE NoExc
    IN  [result |-> norm, raised |-> exc,
         out |-> IF exc = NoExc THEN norm ELSE SendMessageExcept(exc, conv)]

----------------------------------------------------------------------------
(* The inputs of a send: the client's base address, the transport's        *)
(* outcomes *)

BaseUrlArgs ==
    {NoneV, Str(<<"h">>), Str(<<"h", "/">>), Str(<<"h", "/", "a", "2", "a">>),
     Str(<<"h", "/", "a", "2", "a", "/", "/">>), Str(<<"h", "a", "2", "a">>)}

TransportErrors ==
    {Exc(ConnectionErrorCls, <<"r">>), Exc(ReadTimeoutCls, <<"s">>)}

JsonCharsetMime ==
    <<"A", "p", "p", "l", "i", "c", "a", "t", "i", "o", "n", "/", "J", "S", "O", "N",
      ";", " ", "c", "h", "a", "r", "s", "e", "t", "=", "u", "t", "f", "-", "8">>

ContentTypes ==
    {NoneV, Str(<<"t", "e", "x", "t", "/", "h", "t", "m", "l">>), Str(JsonMime),
     Str(JsonCharsetMime)}

\* The Content-Type header of the decodable JSON bodies of this model.
JsonContentType(st) == IF st = 200 THEN Str(JsonMime) ELSE Str(JsonCharsetMime)

\* The keys of the JSON bodies answered to a send.
BodyKeys == {"conversation_id", "content", "response", "parts", "error", "_http_status"}

StatusCodes == {200, 404, 500}

RawTexts == {<<>>, <<"o", "k">>}

\* One requests.post call of the history: requests.post(url, json=js,
\* timeout=tmo, ...) and its outcome o.
Attempt(u, js, tmo, o) ==
    [timeout |-> tmo, resp |-> o.resp, exc |-> o.exc, json |-> js, kind |-> o.kind,
     url |-> u]

----------------------------------------------------------------------------
(* The other parts of the program while one part is checked *)

\* No /api/send request is being served.
UiIdle ==
    /\ ui_req = NoneV
    /\ ui_env = NoneV
    /\ ui_pc = "idle"
    /\ ui_calls = <<>>
    /\ ui_resp = NoneV

\* No quote is being computed.
QuoteIdle ==
    /\ q_ticker = NoneV
    /\ q_pc = "idle"
    /\ q_price = NoneV
    /\ q_prev = NoneV
    /\ q_log = <<>>
    /\ q_out = NoneV

\* No message was received and no request is being served.
SlotIdle ==
    /\ slot_file = <<>>
    /\ slot_recv = <<>>
    /\ slot_rend = <<>>
    /\ slot_log = <<>>

\* No client is registered for the stream.
SseIdle ==
    /\ sse_queue = <<>>
    /\ sse_event = FALSE
    /\ sse_gen = "idle"
    /\ sse_adders = <<>>
    /\ sse_yielded = <<>>

\* No registration is under way.
RegIdle ==
    /\ reg_args = <<>>
    /\ reg_pc = "idle"
    /\ reg_attempt = 0
    /\ reg_path = 0
    /\ reg_posts = <<>>
    /\ reg_ret = "none"

ServicesIdle == UiIdle /\ QuoteIdle /\ SlotIdle /\ SseIdle /\ RegIdle

\* No A2AClient is in use.
ClientIdle ==
    /\ base_url = <<>>
    /\ message = Message(NoneV)
    /\ pc = "idle"
    /\ candidates = <<>>
    /\ idx = 0
    /\ last_err = NoExc
    /\ attempts = <<>>
    /\ data = NoneV
    /\ result = NoResult
    /\ raised = NoExc
    /\ reply = NoReply
    /\ threads = <<>>
    /\ timeout = DefaultTimeout
    /\ sent = 0

IdleExceptUi == ClientIdle /\ QuoteIdle /\ SlotIdle /\ SseIdle /\ RegIdle

IdleExceptQuote == ClientIdle /\ UiIdle /\ SlotIdle /\ SseIdle /\ RegIdle

IdleExceptSlot == ClientIdle /\ UiIdle /\ QuoteIdle /\ SseIdle /\ RegIdle

IdleExceptSse == ClientIdle /\ UiIdle /\ QuoteIdle /\ SlotIdle /\ RegIdle

IdleExceptReg == ClientIdle /\ UiIdle /\ QuoteIdle /\ SlotIdle /\ SseIdle

----------------------------------------------------------------------------
(* A2AClient.send_message *)

Init ==
    /\ \E arg \in BaseUrlArgs : base_url = ClientBaseUrl(arg)
    /\ \E conv \in OutboundConvs : message = Message(conv)
    /\ pc = "send"
    /\ candidates = <<>>
    /\ idx = 0
    /\ last_err = NoExc
    /\ attempts = <<>>
    /\ data = NoneV
    /\ result = NoResult
    /\ raised = NoExc
    /\ reply = NoReply
    /\ threads = <<>>
    /\ timeout = DefaultTimeout
    /\ sent = 1
    /\ ServicesIdle

\* Faulty variant of SendStart: the candidate list is kept on the client and
\* each send appends its candidates to it.
SendStart_SharedCandidates ==
    /\ pc = "send"
    /\ candidates' = candidates \o Candidates(base_url)
    /\ idx' = 1
    /\ last_err' = NoExc
    /\ pc' = "post"
    /\ UNCHANGED <<base_url, message, attempts, data, result, raised, reply, threads,
                   timeout, sent, serviceVars>>

\* send_message builds the payload and calls _try_post, which builds the
\* candidate list and enters the for loop.
SendStart ==
    /\ pc = "send"
    /\ candidates' = Candidates(base_url)
    /\ idx' = 1
    /\ last_err' = NoExc
    /\ pc' = "post"
    /\ UNCHANGED <<base_url, message, attempts, data, result, raised, reply, threads,
                   timeout, sent, serviceVars>>

\* One iteration of the for loop with the outcome o of its requests.post
\* call, and everything the call does before the next requests.post: the
\* next iteration, or the return of _try_post and of send_message.
Post(o) ==
    /\ pc = "post"
    /\ idx <= Len(candidates)
    /\ attempts' = Append(attempts, Attempt(candidates[idx], Payload(message), timeout, o))
    /\ \E tp \in {TryPostStep(o, idx, Len(candidates), last_err)} :
       \E fin \in {SendMessageFinish(tp, message.conversation_id)} :
           /\ last_err' = tp.last_err
           /\ IF tp.next = "continue"
              THEN /\ idx' = idx + 1
                   /\ pc' = "post"
                   /\ UNCHANGED <<data, result, raised, reply>>
              ELSE /\ idx' = idx
                   /\ data' = tp.data
                   /\ result' = fin.result
                   /\ raised' = fin.raised
                   /\ reply' = fin.out.resp
                   /\ pc' = IF fin.out.ok THEN "done" ELSE "propagated"
    /\ UNCHANGED <<base_url, message, candidates, threads, timeout, sent, serviceVars>>

PostRaises == \E e \in TransportErrors : Post(PostRaised(e))

\* A response whose body is read as text: no JSON content type, or a body
\* that json() cannot decode.
PostRespondsText ==
    \E st \in StatusCodes, ct \in ContentTypes, tx \in RawTexts :
        Post(PostReturned(Response(st, ct, tx, JsonFails)))

\* A response with a JSON content type whose body json() decodes, to a
\* mapping with at most MaxBodyKeys keys or to a value that is no mapping
\* (its text is never read by the code and is held empty).
PostRespondsJson ==
    \E st \in {200, 500} :
        \/ \E v \in NonMappings :
              Post(PostReturned(Response(st, JsonContentType(st), <<>>, JsonOk(v))))
        \/ \E K \in KeySets(BodyKeys, MaxBodyKeys) : \E f \in MappingsOver(K) :
              Post(PostReturned(Response(st, JsonContentType(st), <<>>, JsonOk(Dict(f)))))

Next == SendStart \/ PostRaises \/ PostRespondsText \/ PostRespondsJson

Spec == Init /\ [][Next]_vars

\* A call that was started goes on, and a requests.post call does not hang:
\* it carries timeout=self.timeout, so that it raises (a Timeout) at the
\* latest when the timeout expires, unless it returned or raised before.
FairSpec == Spec /\ WF_vars(SendStart) /\ WF_vars(PostRaises)

----------------------------------------------------------------------------
(* The normalizer on its own: _extract_text_and_conv(data, fallback_conv)  *)
(* applied to every input of NormInputs.                                   *)

\* The inputs: the payloads that are not mappings, and the response mappings
\* with at most MaxKeys keys.
InitNorm ==
    /\ pc = "extract"
    /\ \/ data \in NonMappings
       \/ \E K \in KeySets(ResponseKeys, MaxKeys) :
             \E f \in MappingsOver(K) : data = Dict(f)
    /\ \E conv \in OutboundConvs : message = Message(conv)
    /\ base_url = <<>>
    /\ candidates = <<>>
    /\ idx = 0
    /\ last_err = NoExc
    /\ attempts = <<>>
    /\ result = NoResult
    /\ raised = NoExc
    /\ reply = NoReply
    /\ threads = <<>>
    /\ timeout = DefaultTimeout
    /\ sent = 0
    /\ ServicesIdle

ExtractCall ==
    /\ pc = "extract"
    /\ result' = ExtractTextAndConv(data, message.conversation_id)
    /\ pc' = "extracted"
    /\ UNCHANGED <<base_url, message, candidates, idx, last_err, attempts, data, raised,
                   reply, threads, timeout, sent, serviceVars>>

NextNorm == ExtractCall

SpecNorm == InitNorm /\ [][NextNorm]_vars

----------------------------------------------------------------------------
(* Concurrent calls on one client: send_message called directly, or run on *)
(* a thread by send_message_async                                          *)

Calls == 1..MaxCalls

\* What the caller of a call holds: nothing yet, the reply returned by
\* send_message, or the Thread returned by send_message_async.
NotReturned == [reply |-> NoReply, kind |-> "none", thread |-> 0]

ReturnedReply(r) == [reply |-> r, kind |-> "reply", thread |-> 0]

ThreadHandle(c) == [reply |-> NoReply, kind |-> "thread", thread |-> c]

\* The outbound message of call c: each call has its own conversation.
ConcMessage(c) == Message(Str(<<"c">> \o NatToStr(c)))

\* The frame of call c before the call is made.
IdleFrame(c) ==
    [message |-> ConcMessage(c), pc |-> "idle", candidates |-> <<>>, idx |-> 0,
     last_err |-> NoExc, attempts |-> <<>>, reply |-> NoReply, mode |-> "none",
     ret |-> NotReturned]

\* Faulty variant of Frame: the message is kept on the client, where the
\* first call's message is the one every call reads.
Frame_MessageOnClient(ts, c) == [ts[c] EXCEPT !.message = ts[1].message]

\* The locals of call c: message, candidates, the loop position, last_err and
\* the reply are local to the frames of send_message and _try_post.
Frame(ts, c) == ts[c]

\* The base addresses and the transport outcomes of the concurrent calls.
ConcBaseUrlArgs == {Str(<<"h">>), Str(<<"h", "/", "a", "2", "a">>)}

ConcOutcomes ==
    {PostRaised(Exc(ConnectionErrorCls, <<"r">>)),
     PostReturned(Response(200, NoneV, <<"o", "k">>, JsonFails)),
     PostReturned(Response(500, Str(JsonMime), <<>>,
                           JsonOk(D1("conversation_id", Str(<<"c", "9">>)))))}

InitConc ==
    /\ \E arg \in ConcBaseUrlArgs : base_url = ClientBaseUrl(arg)
    /\ threads = [c \in Calls |-> IdleFrame(c)]
    /\ message = Message(NoneV)
    /\ pc = "concurrent"
    /\ candidates = <<>>
    /\ idx = 0
    /\ last_err = NoExc
    /\ attempts = <<>>
    /\ data = NoneV
    /\ result = NoResult
    /\ raised = NoExc
    /\ reply = NoReply
    /\ timeout = DefaultTimeout
    /\ sent = 0
    /\ ServicesIdle

\* The step of call c that turns its frame into f; nothing else changes.
FrameStep(c, f) ==
    /\ threads' = [threads EXCEPT ![c] = f]
    /\ UNCHANGED <<base_url, message, pc, candidates, idx, last_err, attempts, data,
                   result, raised, reply, timeout, sent, serviceVars>>

\* A caller calls send_message(message) and waits for its return.
CallSync(c) ==
    /\ threads[c].pc = "idle"
    /\ FrameStep(c, [threads[c] EXCEPT !.pc = "send", !.mode = "sync"])

\* send_message_async: the Thread running send_message is created and
\* started.
CallAsync(c) ==
    /\ threads[c].pc = "idle"
    /\ FrameStep(c, [threads[c] EXCEPT !.pc = "send", !.mode = "async"])

\* Faulty variant of AsyncReturn: the Thread is joined before it is returned.
AsyncReturn_Joined(c) ==
    /\ threads[c].mode = "async"
    /\ threads[c].ret = NotReturned
    /\ threads[c].pc = "done"
    /\ FrameStep(c, [threads[c] EXCEPT !.ret = ThreadHandle(c)])

\* send_message_async: return t, whatever the thread has done so far.
AsyncReturn(c) ==
    /\ threads[c].mode = "async"
    /\ threads[c].ret = NotReturned
    /\ FrameStep(c, [threads[c] EXCEPT !.ret = ThreadHandle(c)])

\* send_message of call c builds the payload and enters the loop of
\* _try_post.
ConcSendStart(c) ==
    /\ threads[c].pc = "send"
    /\ FrameStep(c, [threads[c] EXCEPT !.candidates = Candidates(base_url),
                                       !.idx = 1,
                                       !.last_err = NoExc,
                                       !.pc = "post"])

\* One requests.post of call c with outcome o and what the call does until
\* its next requests.post or its return. The reply goes to the caller of
\* send_message; Thread.run drops it when the call runs on a thread.
ConcPost(c, o) ==
    LET f == Frame(threads, c)
    IN  /\ threads[c].pc = "post"
        /\ f.idx <= Len(f.candidates)
        /\ \E tp \in {TryPostStep(o, f.idx, Len(f.candidates), f.last_err)} :
           \E fin \in {SendMessageFinish(tp, f.message.conversation_id)} :
              FrameStep(c,
                 IF tp.next = "continue"
                 THEN [threads[c] EXCEPT
                          !.attempts = Append(f.attempts,
                                              Attempt(f.candidates[f.idx],
                                                      Payload(f.message), timeout, o)),
                          !.idx = f.idx + 1,
                          !.last_err = tp.last_err]
                 ELSE [threads[c] EXCEPT
                          !.attempts = Append(f.attempts,
                                              Attempt(f.candidates[f.idx],
                                                      Payload(f.message), timeout, o)),
                          !.last_err = tp.last_err,
                          !.reply = fin.out.resp,
                          !.pc = "done",
                          !.ret = IF threads[c].mode = "sync"
                                  THEN ReturnedReply(fin.out.resp)
                                  ELSE threads[c].ret])

NextConc ==
    \E c \in Calls :
        \/ CallSync(c)
        \/ CallAsync(c)
        \/ AsyncReturn(c)
        \/ ConcSendStart(c)
        \/ \E o \in ConcOutcomes : ConcPost(c, o)

SpecConc == InitConc /\ [][NextConc]_vars

----------------------------------------------------------------------------
(* Properties of send_message, checked under Spec *)

Conv == message.conversation_id

NumAttempts == Len(attempts)

AttemptRaised(i) == attempts[i].kind = "raise"

\* every candidate of the call was attempted and raised
AllRaised ==
    /\ pc = "done"
    /\ NumAttempts = Len(candidates)
    /\ \A i \in 1..NumAttempts : AttemptRaised(i)

\* a candidate responded
Responded == NumAttempts > 0 /\ attempts[NumAttempts].kind = "response"

ErrorMarker == <<"[", "e", "r", "r", "o", "r", "]">>

\* C1: send_message never raises: a call is on its way to a reply or has
\* returned one, whatever the transport did and whatever body was decoded;
\* and when every candidate raised, or an exception reached the except
\* clauses while the response was parsed or normalized, the reply text
\* begins with "[error]".
C1_NeverRaises ==
    /\ pc \in {"send", "post", "done"}
    /\ pc = "post" => idx \in 1..Len(candidates)
    /\ (pc = "done" /\ (AllRaised \/ raised # NoExc)) => StartsWith(reply.text, ErrorMarker)

\* A candidate answered a JSON body that is no mapping; normalizing it raised
\* AttributeError and the call returned an error reply.
C1_Witness ==
    /\ pc = "done"
    /\ Responded
    /\ ~IsDict(data)
    /\ raised.cls = AttributeErrorCls
    /\ StartsWith(reply.text, ErrorMarker)

\* The reply of a send whose accepted response is r: the normalization of
\* what _try_post made of r with the outbound conversation id as fallback,
\* or the error reply of the exception the normalization raised.
ReplyOfResponse(r) ==
    LET norm == ExtractTextAndConv(ParseResponse(r), Conv)
    IN  IF norm.ok THEN norm.resp ELSE SendMessageExcept(norm.exc, Conv).resp

\* C2: a candidate that completes without a transport exception is the last
\* one attempted, whatever its status; every candidate before it raised; and
\* the reply is the normalization of its response.
C2_FirstResponderIsFinal ==
    \A i \in 1..NumAttempts :
        attempts[i].kind = "response" =>
            /\ i = NumAttempts
            /\ \A j \in 1..(i - 1) : AttemptRaised(j)
            /\ pc = "done"
            /\ reply = ReplyOfResponse(attempts[i].resp)

\* Two candidates raised, the third answered 500 and its body was normalized.
C2_Witness ==
    /\ pc = "done"
    /\ NumAttempts = 3
    /\ AttemptRaised(1) /\ AttemptRaised(2)
    /\ attempts[3].kind = "response"
    /\ attempts[3].resp.status_code = 500
    /\ result.ok
    /\ reply = result.resp

CandidateSuffixes ==
    << <<"/", "a", "2", "a">>, <<>>, <<"/", "s", "e", "n", "d">>,
       <<"/", "m", "e", "s", "s", "a", "g", "e">>,
       <<"/", "m", "e", "s", "s", "a", "g", "e", "s">> >>

\* The candidate addresses in the order of the endpoint fallback policy.
PolicyCandidates(base) ==
    LET all == [i \in 1..Len(CandidateSuffixes) |-> base \o CandidateSuffixes[i]]
    IN  IF EndsWith(base, <<"/", "a", "2", "a">>) THEN Tail(all) ELSE all

\* C3: the i-th attempt of a send goes to the i-th address of the policy's
\* list (base + /a2a unless the base already ends with /a2a, the base,
\* base + /send, /message, /messages; the base carries no trailing slash),
\* and is made only after every earlier candidate raised.
C3_CandidateOrder ==
    /\ base_url = <<>> \/ base_url[Len(base_url)] # "/"
    /\ NumAttempts <= Len(PolicyCandidates(base_url))
    /\ \A i \in 1..NumAttempts :
          /\ attempts[i].url = PolicyCandidates(base_url)[i]
          /\ \A j \in 1..(i - 1) : AttemptRaised(j)

\* A base ending with /a2a: four candidates, the bare base first, all tried.
C3_Witness ==
    /\ EndsWith(base_url, <<"/", "a", "2", "a">>)
    /\ AllRaised
    /\ NumAttempts = 4
    /\ attempts[1].url = base_url
    /\ attempts[4].url = base_url \o <<"/", "m", "e", "s", "s", "a", "g", "e", "s">>

LastAttempt == attempts[NumAttempts]

\* C4: when every candidate raised, the exception that reaches the caller of
\* _try_post is the last candidate's, and the reply is the timeout marker
\* exactly when that exception is a timeout and otherwise carries its class
\* name and message; earlier exceptions play no part.
C4_LastExceptionSurfaced ==
    AllRaised =>
        /\ raised = LastAttempt.exc
        /\ reply.text =
              IF LastAttempt.exc.cls \in {TimeoutCls, ReadTimeoutCls, ConnectTimeoutCls}
              THEN TimeoutText
              ELSE ErrorPrefix \o LastAttempt.exc.cls \o <<":", " ">> \o LastAttempt.exc.msg

\* Earlier candidates timed out, the last one failed to connect: the reply
\* names the connection error.
C4_Witness ==
    /\ AllRaised
    /\ NumAttempts = 5
    /\ \A i \in 1..4 : attempts[i].exc.cls = ReadTimeoutCls
    /\ LastAttempt.exc.cls = ConnectionErrorCls
    /\ reply.text = ErrorPrefix \o ConnectionErrorCls \o <<":", " ", "r">>

\* C5: when every candidate attempt of a send times out, the reply is the
\* fixed text "[error] request timeout" with the outbound conversation id.
C5_TimeoutReply ==
    (AllRaised /\ \A i \in 1..NumAttempts : attempts[i].exc.cls = ReadTimeoutCls) =>
        /\ reply.text =
              <<"[", "e", "r", "r", "o", "r", "]", " ", "r", "e", "q", "u", "e", "s", "t",
                " ", "t", "i", "m", "e", "o", "u", "t">>
        /\ reply.conversation_id = Conv

\* Every candidate timed out on a message of conversation "c1".
C5_Witness ==
    /\ AllRaised
    /\ \A i \in 1..NumAttempts : attempts[i].exc.cls = ReadTimeoutCls
    /\ Conv = Str(<<"c", "1">>)
    /\ reply = A2AResponse(TimeoutText, Str(<<"c", "1">>))

----------------------------------------------------------------------------
(* Properties of the normalizer, checked under SpecNorm *)

Extracted == pc = "extracted" /\ IsDict(data)

ContentOf == Get(data, "content")

\* content is a mapping with a string text member
HasContentText == IsDict(ContentOf) /\ IsStr(Get(ContentOf, "text"))

\* The first of vals that is truthy, the last one when none is (a or b or c).
FirstTruthy(vals) ==
    LET ts == {i \in 1..Len(vals) : Truthy(vals[i])}
    IN  IF ts = {} THEN vals[Len(vals)] ELSE vals[CHOOSE i \in ts : \A j \in ts : i <= j]

\* A string of an error-shaped field is used: always as the rule list is
\* written, only when it is not blank as the list is amended.
RuleString(v, amended) == IsStr(v) /\ (amended => Strip(v.s) # <<>>)

RuleErrorValue(v, members, amended) ==
    IF RuleString(v, amended) THEN Hit(ErrorPrefix \o v.s)
    ELSE IF IsDict(v)
    THEN LET m == FirstTruthy([i \in 1..Len(members) |-> Get(v, members[i])])
         IN  IF RuleString(m, amended) THEN Hit(ErrorPrefix \o m.s) ELSE Miss
    ELSE Miss

\* The HTTP-status annotation counts: when present as the rule list is
\* written, when present and truthy as the list is amended.
RuleStatus(d, amended) ==
    IF amended THEN Truthy(Get(d, "_http_status")) ELSE "_http_status" \in DOMAIN d.d

\* The nine rules of the normalization algorithm applied to the mapping d,
\* in order.
RuleList(d, amended) ==
    LET c == Get(d, "content")
        parts == Get(d, "parts")
        errs == Get(d, "errors")
    IN  << \* (1) content is a mapping with string text
           IF IsDict(c) /\ IsStr(Get(c, "text")) THEN Hit(Get(c, "text").s) ELSE Miss,
           \* (2) content is a string
           IF IsStr(c) THEN Hit(c.s) ELSE Miss,
           \* (3) first string among response, text, message
           FirstHit(<<TextOfKey(d, "response"), TextOfKey(d, "text"), TextOfKey(d, "message")>>),
           \* (4) parts: first element a mapping with string text
           IF IsList(parts) /\ parts.l # <<>> /\ IsDict(parts.l[1])
              /\ IsStr(Get(parts.l[1], "text"))
           THEN Hit(Get(parts.l[1], "text").s) ELSE Miss,
           \* (5) error, detail, description
           FirstHit(<<RuleErrorValue(Get(d, "error"), <<"message", "text">>, amended),
                      RuleErrorValue(Get(d, "detail"), <<"message", "text">>, amended),
                      RuleErrorValue(Get(d, "description"), <<"message", "text">>, amended)>>),
           \* (6) errors: the first element
           IF IsList(errs) /\ errs.l # <<>>
           THEN RuleErrorValue(errs.l[1], <<"message", "detail", "title">>, amended)
           ELSE Miss,
           \* (7) the whole payload is a string
           IF IsStr(d) THEN Hit(d.s) ELSE Miss,
           \* (8) HTTP-status annotation
           IF RuleStatus(d, amended)
           THEN Hit(StatusPrefix \o Format(Get(d, "_http_status")) \o BodyInfix \o Format(d))
           ELSE Miss,
           \* (9) unexpected response
           Hit(UnexpectedPrefix \o Format(d)) >>

RuleText(d, amended) == FirstHit(RuleList(d, amended)).text

\* C6 as stated: for every response mapping the text is that of the first
\* matching rule of the nine-rule list, where rules 5 and 6 use any string
\* value and rule 8 applies whenever the annotation is present.
C6_RuleListAsStated ==
    Extracted => result.ok /\ result.resp.text = RuleText(data, FALSE)

\* C6 amended: for every response mapping the text is that of the first
\* matching rule of the nine-rule list, where rules 5 and 6 use a string only
\* if it is not blank (the member of a mapping being the first truthy one of
\* message/text, resp. message/detail/title) and rule 8 applies only when
\* the annotation is present and truthy.
C6_RuleListAmended ==
    Extracted => result.ok /\ result.resp.text = RuleText(data, TRUE)

\* A blank error string was skipped and the status rule decided the text.
C6_Witness ==
    /\ Extracted
    /\ Get(data, "error") = Str(<<" ">>)
    /\ Get(data, "_http_status") = IntV(404)
    /\ StartsWith(result.resp.text, StatusPrefix)

\* C7 as stated: the conversation id is the top-level conversation_id when
\* present, else the conversation_id member of the metadata mapping when
\* present, else the outbound id.
C7_ConvAsStated ==
    Extracted =>
        result.resp.conversation_id =
            IF "conversation_id" \in DOMAIN data.d THEN data.d["conversation_id"]
            ELSE IF IsDict(Get(data, "metadata"))
                    /\ "conversation_id" \in DOMAIN Get(data, "metadata").d
            THEN Get(data, "metadata").d["conversation_id"]
            ELSE message.conversation_id

\* C7 amended: the conversation id is the top-level conversation_id when
\* present and truthy (not null, empty or zero), else the conversation_id
\* member of the metadata mapping when present and truthy, else the outbound
\* id; {"conversation_id": "c2"} yields "c2" and a response without any
\* conversation id yields the outbound id.
C7_ConvResolution ==
    Extracted =>
        LET top == Get(data, "conversation_id")
            md == Get(data, "metadata")
            nested == IF IsDict(md) THEN Get(md, "conversation_id") ELSE NoneV
        IN  /\ result.ok
            /\ result.resp.conversation_id =
                  IF Truthy(top) THEN top
                  ELSE IF Truthy(nested) THEN nested
                  ELSE message.conversation_id
            /\ data = D1("conversation_id", Str(<<"c", "2">>))
                  => result.resp.conversation_id = Str(<<"c", "2">>)
            /\ ({"conversation_id", "metadata"} \cap DOMAIN data.d = {})
                  => result.resp.conversation_id = message.conversation_id

\* An empty top-level id gave way to the id nested under metadata.
C7_Witness ==
    /\ Extracted
    /\ message.conversation_id = Str(<<"c", "1">>)
    /\ Get(data, "conversation_id") = Str(<<>>)
    /\ Get(data, "metadata") = D1("conversation_id", Str(<<"c", "3">>))
    /\ result.resp.conversation_id = Str(<<"c", "3">>)

\* C8: a mapping containing {"content": {"text": T}}, T a string, yields text
\* exactly T whatever its other fields, response included.
C8_ContentTextWins ==
    (Extracted /\ HasContentText) =>
        result.ok /\ result.resp.text = Get(ContentOf, "text").s

\* content.text and a string response are both present; content.text won.
C8_Witness ==
    /\ Extracted
    /\ HasContentText
    /\ Get(data, "response") = Str(<<"r">>)
    /\ result.resp.text = <<"b">>

\* C9: with no usable content field (content neither a string nor a mapping
\* with string text), the text is the first string value among response,
\* text, message in that order, unchanged; {"response": T} yields T, also
\* for the empty string.
C9_FirstTopLevelString ==
    (Extracted /\ ~HasContentText /\ ~IsStr(ContentOf)) =>
        LET r == Get(data, "response")
            t == Get(data, "text")
            m == Get(data, "message")
        IN  /\ IsStr(r) => result.resp.text = r.s
            /\ (~IsStr(r) /\ IsStr(t)) => result.resp.text = t.s
            /\ (~IsStr(r) /\ ~IsStr(t) /\ IsStr(m)) => result.resp.text = m.s
            /\ \A T \in {<<>>, <<"r">>} :
                  data = D1("response", Str(T)) => result.resp.text = T

\* response is no string, text and message are: text was used.
C9_Witness ==
    /\ Extracted
    /\ Get(data, "response") = IntV(1)
    /\ Get(data, "text") = Str(<<"t">>)
    /\ Get(data, "message") = Str(<<"m">>)
    /\ result.resp.text = <<"t">>

PartsOf == Get(data, "parts")

\* parts is a non-empty sequence whose first element is a mapping with a
\* string text member
HasPartsText ==
    /\ IsList(PartsOf)
    /\ PartsOf.l # <<>>
    /\ IsDict(PartsOf.l[1])
    /\ IsStr(Get(PartsOf.l[1], "text"))

\* C10: a mapping with {"parts": [{"text": T}]} and no content, response,
\* text or message field yields exactly T, also when error, detail,
\* description or errors are present.
C10_PartsText ==
    (Extracted /\ HasPartsText
       /\ {"content", "response", "text", "message"} \cap DOMAIN data.d = {}) =>
        result.ok /\ result.resp.text = Get(PartsOf.l[1], "text").s

\* parts[0].text and a usable error string are both present; parts won.
C10_Witness ==
    /\ Extracted
    /\ HasPartsText
    /\ Get(data, "error") = Str(<<"e">>)
    /\ "errors" \in DOMAIN data.d
    /\ result.resp.text = <<"p">>

----------------------------------------------------------------------------
(* Upstream errors, payload shapes and reply types, checked under Spec *)

\* The call returned the reply the normalizer made of the accepted response:
\* no exception reached the except clauses.
OrdinaryReply ==
    /\ pc = "done"
    /\ Responded
    /\ raised = NoExc
    /\ result.ok
    /\ reply = result.resp

HigherPriorityKeys == {"content", "response", "text", "message", "parts"}

\* The payload handed to the normalizer is a mapping whose error field is a
\* string, with none of the higher-priority fields.
ErrorStringOnly ==
    /\ pc = "done"
    /\ Responded
    /\ IsDict(data)
    /\ IsStr(Get(data, "error"))
    /\ HigherPriorityKeys \cap DOMAIN data.d = {}

\* C11 as stated: every error string, blank ones included, is returned
\* behind the error marker.
C11_ErrorStringAsStated ==
    ErrorStringOnly =>
        OrdinaryReply /\ reply.text = ErrorPrefix \o Get(data, "error").s

\* C11: a response mapping with an error string that is not blank and none
\* of content, response, text, message, parts yields the text "[error] "
\* followed by the error string, and the send returns it as an ordinary
\* reply: no exception is involved. With a blank error string the reply is
\* an ordinary one too.
C11_UpstreamErrorIsReply ==
    ErrorStringOnly =>
        /\ OrdinaryReply
        /\ Strip(Get(data, "error").s) # <<>> =>
              reply.text = ErrorPrefix \o Get(data, "error").s

\* A candidate answered 500 with the JSON body {"error": "e"}.
C11_Witness ==
    /\ ErrorStringOnly
    /\ attempts[NumAttempts].resp.status_code = 500
    /\ Get(data, "error") = Str(<<"e">>)
    /\ reply.text = <<"[", "e", "r", "r", "o", "r", "]", " ", "e">>
    /\ raised = NoExc

\* C12: when the payload handed to the normalizer is a string S, the reply
\* text is exactly S and no exception reaches the except clauses of the send.
C12_BareStringTolerated ==
    (pc = "done" /\ Responded /\ IsStr(data)) =>
        /\ raised = NoExc
        /\ result.ok
        /\ reply.text = data.s

\* The response the call accepted: that of the last attempt.
Accepted == attempts[NumAttempts].resp

\* The accepted response has a JSON content type and its body decodes to a
\* mapping.
DecodedMapping ==
    /\ pc = "done"
    /\ Responded
    /\ Contains(JsonMime, Lower(PyOr(Accepted.content_type, Str(<<>>)).s))
    /\ Accepted.json.ok
    /\ IsDict(Accepted.json.v)

\* C13: for every accepted response whose decoded body is a mapping, the
\* mapping handed to the normalizer holds the response's HTTP status code
\* under _http_status, whatever keys the body contained.
C13_StatusAnnotation ==
    DecodedMapping =>
        IsDict(data) /\ Get(data, "_http_status") = IntV(Accepted.status_code)

\* The content type of the accepted response indicates JSON.
AcceptedIsJson == Contains(JsonMime, Lower(PyOr(Accepted.content_type, Str(<<>>)).s))

\* A payload without its _http_status member.
WithoutStatus(v) ==
    IF IsDict(v) THEN Dict([k \in DOMAIN v.d \ {"_http_status"} |-> v.d[k]]) ELSE v

WellTypedReply(r) ==
    /\ r.text \in Seq(STRING)
    /\ IsStr(r.conversation_id) \/ r.conversation_id = NoneV

\* C15: every reply returned by the normalizer or by send_message has a
\* string text and a conversation id that is a string or absent; a
\* conversation_id of the response that is no string never becomes the
\* reply's conversation id.
C15_ReplyTypes ==
    /\ result.ok => WellTypedReply(result.resp)
    /\ pc = "done" => WellTypedReply(reply)

\* The mapping d matches none of the text, parts and error rules.
NoRuleMatches(d) ==
    /\ IsDict(d)
    /\ ~TextFromContent(d).hit
    /\ ~TextFromTopLevel(d).hit
    /\ ~TextFromParts(d).hit
    /\ ~TextFromErrorKeys(d).hit
    /\ ~TextFromErrors(d).hit

\* "(A2A) HTTP <status>, body: <payload>"
StatusEcho(status, payload) ==
    StatusPrefix \o Format(status) \o BodyInfix \o Format(payload)

\* C16: a response mapping that matches none of the text, parts and error
\* rules is answered by an ordinary reply that echoes the payload; through
\* send_message the mapping carries the status annotation and the echo has
\* the form "HTTP <status>, body: <payload>".
C16_StatusEcho ==
    (pc = "done" /\ Responded /\ NoRuleMatches(data)) =>
        /\ OrdinaryReply
        /\ "_http_status" \in DOMAIN data.d
        /\ reply.text = StatusEcho(Get(data, "_http_status"), data)

\* C17: every reply that send_message makes of an exception (a timeout, any
\* other transport exception, an exception raised while the accepted
\* response was normalized) carries the conversation id of the outbound
\* message, also when the accepted response held another conversation id.
C17_ErrorReplyKeepsConv ==
    (pc = "done" /\ raised # NoExc) =>
        /\ StartsWith(reply.text, ErrorMarker)
        /\ reply.conversation_id = Conv

\* The accepted body [{"conversation_id": "c2"}] is no mapping; normalizing
\* it raised and the error reply carries the outbound id "c1".
C17_Witness ==
    /\ pc = "done"
    /\ Responded
    /\ data = ListV(<<D1("conversation_id", Str(<<"c", "2">>))>>)
    /\ raised.cls = AttributeErrorCls
    /\ Conv = Str(<<"c", "1">>)
    /\ reply.conversation_id = Str(<<"c", "1">>)

----------------------------------------------------------------------------
(* Termination of send_message, checked under FairSpec *)

\* The attempts of a call: at most one per candidate address, at most 5 (4
\* when the base address ends with /a2a), and none after a response.
BoundedAttempts ==
    /\ NumAttempts <= 5
    /\ EndsWith(base_url, <<"/", "a", "2", "a">>) => NumAttempts <= 4
    /\ \A i, j \in 1..NumAttempts : i # j => attempts[i].url # attempts[j].url
    /\ \A i \in 1..NumAttempts :
          attempts[i].kind = "response" => (i = NumAttempts /\ pc = "done")
    /\ (pc = "post" /\ NumAttempts > 0) => AttemptRaised(NumAttempts)

\* C18: every send_message call ends with a returned reply after a bounded
\* number of attempts: each candidate is attempted at most once, at most 5
\* attempts are made (4 when the base address already ends with /a2a), and
\* there is no attempt after a candidate responded, after the list is
\* exhausted, or after the reply was returned.
C18_BoundedTermination ==
    /\ []BoundedAttempts
    /\ [][pc = "done" => attempts' = attempts]_vars
    /\ <>(pc = "done" /\ (Responded \/ AllRaised))

\* All five candidates of a base address without /a2a raised and the call
\* returned its reply.
C18_Witness ==
    /\ pc = "done"
    /\ NumAttempts = 5
    /\ AllRaised
    /\ StartsWith(reply.text, ErrorMarker)

----------------------------------------------------------------------------
(* send_message_async and concurrent calls, checked under SpecConc *)

\* Thread.is_alive() on the Thread h: the send it runs has not returned.
IsAlive(h) == threads[h.thread].pc \in {"send", "post"}

AsyncCalls == {c \in Calls : threads[c].mode = "async"}

\* C19 as stated: send_message_async gives its caller no handle on the
\* background send.
C19_NoHandleAsStated ==
    \A c \in AsyncCalls : threads[c].ret.kind # "thread"

\* What send_message_async returns: it can return wherever the background
\* send stands, and what it returns is the Thread, whose is_alive tells
\* whether the send has completed and which never holds the reply.
AsyncReturnsThread ==
    \A c \in AsyncCalls :
        /\ threads[c].ret = NotReturned => ENABLED AsyncReturn(c)
        /\ threads[c].ret # NotReturned =>
              /\ threads[c].ret = ThreadHandle(c)
              /\ IsAlive(threads[c].ret) <=> threads[c].pc # "done"

\* Nothing stops a background send or changes what the caller holds: a step
\* leaves a started send started, a returned reply as it is, and the Thread
\* in the caller's hands.
NoCancel ==
    \A c \in AsyncCalls :
        /\ threads'[c].mode = "async"
        /\ threads[c].pc = "post" => threads'[c].pc \in {"post", "done"}
        /\ Len(threads'[c].attempts) >= Len(threads[c].attempts)
        /\ threads[c].pc = "done" => threads'[c].reply = threads[c].reply
        /\ threads[c].ret # NotReturned => threads'[c].ret = threads[c].ret

\* C19: send_message_async starts the synchronous send on a thread and
\* returns without waiting for it; it returns the Thread, through which the
\* caller can observe completion of the send but can neither cancel it nor
\* retrieve its reply.
C19_AsyncFireAndForget ==
    /\ []AsyncReturnsThread
    /\ [][NoCancel]_vars

\* The caller holds the Thread while the background send is still between
\* two attempts; the second call has already completed.
C19_Witness ==
    /\ threads[1].mode = "async"
    /\ threads[1].ret = ThreadHandle(1)
    /\ threads[1].pc = "post"
    /\ Len(threads[1].attempts) = 1
    /\ IsAlive(threads[1].ret)
    /\ threads[2].pc = "done"

\* send_message run alone on a client with base address base: the call
\* position, last_err and reply it has after receiving the transport
\* outcomes outs, one per attempt, in this order.
RECURSIVE AloneFrom(_, _, _, _, _)
AloneFrom(cands, conv, outs, i, lerr) ==
    IF i > Len(outs)
    THEN [pc |-> "post", idx |-> i, last_err |-> lerr, reply |-> NoReply]
    ELSE LET tp == TryPostStep(outs[i], i, Len(cands), lerr)
         IN  IF tp.next = "continue"
             THEN AloneFrom(cands, conv, outs, i + 1, tp.last_err)
             ELSE [pc |-> "done", idx |-> i, last_err |-> tp.last_err,
                   reply |-> SendMessageFinish(tp, conv).out.resp]

RunAlone(base, msg, outs) ==
    AloneFrom(Candidates(base), msg.conversation_id, outs, 1, NoExc)

\* Call c, once in _try_post, stands where it would stand had it run alone
\* with the transport outcomes of its own attempts.
AsIfAlone(c) ==
    LET f == threads[c]
        cands == Candidates(base_url)
    IN  /\ f.message = ConcMessage(c)
        /\ f.pc \in {"post", "done"} =>
              \E alone \in {RunAlone(base_url, ConcMessage(c), f.attempts)} :
                 /\ f.candidates = cands
                 /\ Len(f.attempts) <= Len(cands)
                 /\ \A i \in 1..Len(f.attempts) : f.attempts[i].url = cands[i]
                 /\ alone.pc = f.pc
                 /\ alone.last_err = f.last_err
                 /\ f.pc = "post" => alone.idx = f.idx
                 /\ f.pc = "done" =>
                       /\ alone.idx = Len(f.attempts)
                       /\ alone.reply = f.reply
                       /\ f.mode = "sync" => f.ret = ReturnedReply(alone.reply)

\* A step is a step of one call: it leaves the frames of the other calls and
\* the client as they are.
OneCallSteps ==
    /\ base_url' = base_url
    /\ \E c \in Calls : \A d \in Calls \ {c} : threads'[d] = threads[d]

\* C20: for any interleaving of send_message and send_message_async calls
\* on one client, each call's candidate list, attempts and reply are the
\* same as if it had run alone with the same transport outcomes for its own
\* attempts, and no call writes state of another call.
C20_ConcurrentSendsIndependent ==
    /\ [](\A c \in Calls : AsIfAlone(c))
    /\ [][OneCallSteps]_vars

\* Two calls in flight on one client: the second call, run on a thread, has
\* made two attempts and completed with its own conversation id, while the
\* first call, a direct one, is between its first and its second attempt.
C20_Witness ==
    /\ threads[1].mode = "sync"
    /\ threads[1].pc = "post"
    /\ Len(threads[1].attempts) = 1
    /\ threads[1].last_err # NoExc
    /\ threads[2].mode = "async"
    /\ threads[2].pc = "done"
    /\ Len(threads[2].attempts) = 2
    /\ threads[2].reply.conversation_id = Str(<<"c", "2">>)

----------------------------------------------------------------------------
(* Sends made one after the other on one client *)

\* Number of sends made on the client.
MaxSends == 2

MessageOf(tx, conv, md) ==
    [text |-> tx, conversation_id |-> conv, role |-> "user", metadata |-> md,
     parent_message_id |-> NoneV, message_id |-> NoneV]

\* The messages sent: with and without a conversation id and metadata.
SeqMessages ==
    {MessageOf(<<"h", "i">>, NoneV, NoneV),
     MessageOf(<<"y", "o">>, Str(<<"c", "1">>), D1("source", Str(<<"u", "i">>))),
     MessageOf(<<>>, Str(<<"c", "2">>), Dict(EmptyD))}

SeqBaseUrlArgs == {Str(<<"h">>), Str(<<"h", "/", "a", "2", "a">>)}

\* A2AClient(base_url) and A2AClient(base_url, timeout=5)
SeqTimeouts == {DefaultTimeout, 5}

SeqOutcomes ==
    {PostRaised(Exc(ConnectionErrorCls, <<"r">>)),
     PostRaised(Exc(ReadTimeoutCls, <<"s">>)),
     PostReturned(Response(200, NoneV, <<"o", "k">>, JsonFails)),
     PostReturned(Response(500, Str(JsonMime), <<>>,
                           JsonOk(D1("conversation_id", Str(<<"c", "9">>)))))}

InitSeq ==
    /\ \E arg \in SeqBaseUrlArgs : base_url = ClientBaseUrl(arg)
    /\ timeout \in SeqTimeouts
    /\ message = Message(NoneV)
    /\ pc = "idle"
    /\ sent = 0
    /\ candidates = <<>>
    /\ idx = 0
    /\ last_err = NoExc
    /\ attempts = <<>>
    /\ data = NoneV
    /\ result = NoResult
    /\ raised = NoExc
    /\ reply = NoReply
    /\ threads = <<>>
    /\ ServicesIdle

\* The caller calls client.send_message(msg), on a new client or after the
\* previous send has returned: a new frame, whose locals are not yet
\* assigned.
SeqCall ==
    /\ pc \in {"idle", "done"}
    /\ sent < MaxSends
    /\ \E msg \in SeqMessages : message' = msg
    /\ pc' = "send"
    /\ sent' = sent + 1
    /\ attempts' = <<>>
    /\ data' = NoneV
    /\ result' = NoResult
    /\ raised' = NoExc
    /\ reply' = NoReply
    /\ UNCHANGED <<base_url, candidates, idx, last_err, threads, timeout, serviceVars>>

SeqPost == \E o \in SeqOutcomes : Post(o)

NextSeq == SeqCall \/ SendStart \/ SeqPost

SpecSeq == InitSeq /\ [][NextSeq]_vars

----------------------------------------------------------------------------
(* Frame of send_message, checked under SpecSeq *)

\* The request body of a send of msg, member by member.
IsRequestBodyOf(js, msg) ==
    /\ js.role = msg.role
    /\ js.text = msg.text
    /\ js.conversation_id = msg.conversation_id
    /\ js.metadata = (IF msg.metadata \in {NoneV, Dict(EmptyD)}
                      THEN Dict(EmptyD) ELSE msg.metadata)
    /\ js.parent_message_id = msg.parent_message_id
    /\ js.message_id = msg.message_id

\* Every attempt of the send under way carried the body of its message and
\* the client's timeout.
SameBodyAndTimeout ==
    \A i \in 1..Len(attempts) :
        /\ IsRequestBodyOf(attempts[i].json, message)
        /\ attempts[i].timeout = timeout
        /\ attempts[i].json = attempts[1].json

\* A completed send, the first or a later one on the client, stands where a
\* send of its message run alone on a new client stands.
NothingCarriedOver ==
    pc = "done" =>
        /\ candidates = Candidates(base_url)
        /\ Len(attempts) <= Len(candidates)
        /\ \A i \in 1..Len(attempts) : attempts[i].url = candidates[i]
        /\ \E alone \in {RunAlone(base_url, message, attempts)} :
              /\ alone.pc = "done"
              /\ alone.idx = Len(attempts)
              /\ alone.reply = reply

\* A step leaves the client as it is, and a step of a send leaves its
\* Message as it is.
FrameOfSend ==
    /\ base_url' = base_url
    /\ timeout' = timeout
    /\ pc \in {"send", "post"} => message' = message

\* C21: send_message leaves the outbound Message and the client's base
\* address and timeout unchanged on every path; the same request body and
\* the same timeout are used for every candidate attempt of one send, and
\* nothing is carried over from one send to the next.
C21_SendFrame ==
    /\ []SameBodyAndTimeout
    /\ []NothingCarriedOver
    /\ [][FrameOfSend]_vars

\* The second send on a client has completed after three attempts, the
\* first two of which raised; its message has metadata, the client's
\* timeout is not the default one.
C21_Witness ==
    /\ sent = 2
    /\ pc = "done"
    /\ Len(attempts) = 3
    /\ attempts[1].kind = "raise"
    /\ attempts[3].kind = "response"
    /\ message.metadata # NoneV
    /\ timeout # DefaultTimeout
    /\ attempts[3].timeout = timeout

----------------------------------------------------------------------------
(* run_ui_agent_https.py: the /api/send handler send_message *)

UpperChar(c) ==
    CASE c = "a" -> "A"
      [] c = "b" -> "B"
      [] c = "c" -> "C"
      [] c = "d" -> "D"
      [] c = "e" -> "E"
      [] c = "f" -> "F"
      [] c = "g" -> "G"
      [] c = "h" -> "H"
      [] c = "i" -> "I"
      [] c = "j" -> "J"
      [] c = "k" -> "K"
      [] c = "l" -> "L"
      [] c = "m" -> "M"
      [] c = "n" -> "N"
      [] c = "o" -> "O"
      [] c = "p" -> "P"
      [] c = "q" -> "Q"
      [] c = "r" -> "R"
      [] c = "s" -> "S"
      [] c = "t" -> "T"
      [] c = "u" -> "U"
      [] c = "v" -> "V"
      [] c = "w" -> "W"
      [] c = "x" -> "X"
      [] c = "y" -> "Y"
      [] c = "z" -> "Z"
      [] OTHER -> c

\* s.upper()
Upper(s) == [i \in 1..Len(s) |-> UpperChar(s[i])]

\* Length of the first word of r, which starts with no whitespace.
WordLen(r) ==
    CHOOSE n \in 0..Len(r) :
        /\ \A i \in 1..n : r[i] \notin Whitespace
        /\ n = Len(r) \/ r[n + 1] \in Whitespace

\* s.split()
RECURSIVE Split(_)
Split(s) ==
    LET r == LStripWs(s)
    IN  IF r = <<>> THEN <<>>
        ELSE <<SubSeq(r, 1, WordLen(r))>> \o Split(SubSeq(r, WordLen(r) + 1, Len(r)))

\* The regular expression class [A-Za-z\.\-=:]
TickerChars ==
    {"a", "b", "c", "d", "e", "f", "g", "h", "i", "j", "k", "l", "m", "n", "o", "p",
        "q",
     "r", "s", "t", "u", "v", "w", "x", "y", "z", "A", "B", "C", "D", "E", "F", "G",
         "H",
     "I", "J", "K", "L", "M", "N", "O", "P", "Q", "R", "S", "T", "U", "V", "W", "X",
         "Y",
     "Z", ".", "-", "=", ":"}

\* [A-Za-z\.\-=:]+ matches all of w
IsTicker(w) == w # <<>> /\ \A i \in 1..Len(w) : w[i] \in TickerChars

\* re.match(r"^/quote\s+([A-Za-z\.\-=:]+)$", text) on the stripped text: the
\* literal, whitespace, and one word of ticker characters up to the end.
QuoteMatch(text) ==
    /\ Len(Split(text)) = 2
    /\ Split(text)[1] = <<"/", "q", "u", "o", "t", "e">>
    /\ IsTicker(Split(text)[2])

\* re.match(r"^@stock\s+price\s+([A-Za-z\.\-=:]+)$", low)
StockPriceMatch(low) ==
    /\ Len(Split(low)) = 3
    /\ Split(low)[1] = <<"@", "s", "t", "o", "c", "k">>
    /\ Split(low)[2] = <<"p", "r", "i", "c", "e">>
    /\ IsTicker(Split(low)[3])

\* re.match(r"^/compare\s+([A-Za-z\.\-=:]+)\s+([A-Za-z\.\-=:]+)$", text)
CompareMatch(text) ==
    /\ Len(Split(text)) = 3
    /\ Split(text)[1] = <<"/", "c", "o", "m", "p", "a", "r", "e">>
    /\ IsTicker(Split(text)[2])
    /\ IsTicker(Split(text)[3])

\* re.match(r"^<cmd>\s+(.+)$", text, re.IGNORECASE).group(1).strip() on the
\* stripped text: the command in any case, whitespace, and at least one
\* character up to the end, none of them a newline.
ArgMatch(cmd, text) ==
    IF Len(text) > Len(cmd) /\ Lower(SubSeq(text, 1, Len(cmd))) = cmd
    THEN LET rest == SubSeq(text, Len(cmd) + 1, Len(text))
             arg == LStripWs(rest)
         IN  IF arg # rest /\ arg # <<>> /\ \A i \in 1..Len(arg) : arg[i] # "\n"
             THEN Hit(Strip(arg))
             ELSE Miss
    ELSE Miss

\* The module globals agent_id and agent_port.
AgentId == Str(<<"a", "1">>)

\* f"http://localhost:{agent_port}"
BridgeUrl == <<"h", "t", "t", "p", ":", "/", "/", "l", "o", "c", "a", "l", "h", "o",
    "s", "t", ":", "6", "0", "0", "0">>

\* What the services called by the handler answer: the bridge through
\* A2AClient.send_message, the stock service, the geocoder, the weather
\* service and the Anthropic client.
UiEnv(b, st, g, w, a) == [bridge |-> b, stock |-> st, geo |-> g, wx |-> w, ask |-> a]

\* client.send_message(msg): the bridge's answer, or the timeout reply,
\* which carries the conversation id of msg.
BridgeReply(e, msg) ==
    IF e.bridge = "answers"
    THEN A2AResponse(<<"o", "k">>, Str(<<"c", "9">>))
    ELSE A2AResponse(TimeoutText, msg.conversation_id)

\* stock_help(), stock_quote(t), stock_compare(t1, t2): a text that depends
\* on the arguments and on what the data providers answer.
StockAnswer(e, fn, args) == Str(e.stock \o fn \o args)

\* f"{geo['name']}, {geo.get('admin1') or ''} {geo.get('country') or ''}".strip()
WeatherLabel(geo) ==
    Strip(geo.d["name"].s \o <<",", " ">> \o PyOr(Get(geo, "admin1"), Str(<<>>)).s
          \o <<" ">> \o PyOr(Get(geo, "country"), Str(<<>>)).s)

\* _format_weather(label, wx): the title line; the lines of measurements
\* that follow it are read from wx and are not modelled.
FormatWeather(label, wx) == <<"U+1F324", "U+FE0F">> \o <<" ", "W", "e", "a", "t",
    "h", "e", "r", " ", "f", "o", "r", " ">> \o label

WarnSign == <<"U+26A0", "U+FE0F">>

\* jsonify({"response": ..., "conversation_id": ..., "agent_id": agent_id})
JsonReply(tx, conv) ==
    [status_code |-> 200,
     json |-> Dict(("response" :> Str(tx)) @@ ("conversation_id" :> conv)
                   @@ ("agent_id" :> AgentId))]

\* jsonify({"error": ...}), status
JsonError(tx, status) == [status_code |-> status, json |-> D1("error", Str(tx))]

Served(r, cs) == [resp |-> r, calls |-> cs]

\* str(e) of the AttributeError raised by message_text.strip()
NoStripText(v) ==
    <<"'">> \o TypeName(v) \o <<"'", " ", "o", "b", "j", "e", "c", "t", " ", "h",
        "a", "s", " ", "n", "o", " ", "a", "t", "t", "r", "i", "b", "u", "t", "e",
            " ", "'", "s", "t", "r", "i", "p", "'">>

\* The /weather branch.
WeatherBranch(e, city, conv) ==
    IF ~Truthy(e.geo)
    THEN Served(JsonReply(WarnSign \o <<" ", "C", "o", "u", "l", "d", " ", "n", "o",
        "t", " ", "f", "i", "n", "d", " ", "c", "i", "t", "y", ":",
            " ">> \o city, conv),
                <<<<"_geocode_city", city>>>>)
    ELSE IF ~Truthy(e.wx)
    THEN Served(JsonReply(WarnSign \o <<" ", "W", "e", "a", "t", "h", "e", "r", " ",
        "s", "e", "r", "v", "i", "c", "e", " ", "e", "r", "r", "o", "r", " ", "f",
            "o", "r", ":", " ">>
                          \o e.geo.d["name"].s, conv),
                <<<<"_geocode_city", city>>, <<"_fetch_weather", e.geo>>>>)
    ELSE Served(JsonReply(FormatWeather(WeatherLabel(e.geo), e.wx), conv),
                <<<<"_geocode_city", city>>, <<"_fetch_weather", e.geo>>>>)

\* The /ask branch.
AskBranch(e, question, conv) ==
    CASE e.ask = "no key" ->
            Served(JsonReply(WarnSign \o <<" ", "A", "N", "T", "H", "R", "O", "P",
                "I", "C", "_", "A", "P", "I", "_", "K", "E", "Y", " ", "i", "s",
                    " ", "n", "o", "t", " ", "s", "e", "t", " ", "i", "n", " ", "e",
                        "n", "v", "i", "r", "o", "n", "m", "e", "n", "t", ".">>,
                             conv), <<>>)
      [] e.ask = "raises" ->
            Served(JsonReply(WarnSign \o <<" ", "C", "l", "a", "u", "d", "e", " ",
                "r", "e", "q", "u", "e", "s", "t", " ", "f", "a", "i", "l", "e",
                    "d", ":", " ", "x">>, conv),
                   <<<<"Anthropic.messages.create", question>>>>)
      [] e.ask = "empty" ->
            Served(JsonReply(<<"(", "e", "m", "p", "t", "y", " ", "r", "e", "s",
                "p", "o", "n", "s", "e", ")">>, conv),
                   <<<<"Anthropic.messages.create", question>>>>)
      [] OTHER ->
            Served(JsonReply(<<"a">>, conv), <<<<"Anthropic.messages.create", question>>>>)

\* The branch after the command dispatch: the message goes to the bridge.
ForwardBranch(e, d, message_text, conv) ==
    LET client_id == IF "client_id" \in DOMAIN d.d THEN d.d["client_id"]
                     ELSE Str(<<"u", "i", "_", "c", "l", "i", "e", "n", "t">>)
        metadata == D2("source", Str(<<"u", "i", "_", "c", "l", "i", "e", "n",
            "t">>), "client_id", client_id)
        msg == MessageOf(message_text, conv, metadata)
        response == BridgeReply(e, msg)
    IN  Served(JsonReply(response.text, response.conversation_id),
               <<<<"A2AClient.send_message", BridgeUrl, msg>>>>)

\* send_message() for the POST of a JSON value d that is None or a mapping;
\* the branches are tried in the order of the code.
SendHandler(d, e) ==
    IF ~Truthy(d) \/ "message" \notin DOMAIN d.d
    THEN Served(JsonError(<<"M", "i", "s", "s", "i", "n", "g", " ", "m", "e", "s",
        "s", "a", "g", "e", " ", "i", "n", " ", "r", "e", "q", "u", "e", "s",
            "t">>, 400), <<>>)
    ELSE LET message_text == d.d["message"]
             conv == Get(d, "conversation_id")
         IN  IF ~IsStr(message_text)
             THEN Served(JsonError(NoStripText(message_text), 500), <<>>)
             ELSE LET text == Strip(message_text.s)
                      low == Lower(text)
                  IN  IF low = <<"/", "h", "e", "l", "p">> \/ low = <<"@", "s", "t",
                      "o", "c", "k", " ", "h", "e", "l", "p">>
                      THEN Served(JsonReply(StockAnswer(e, <<"h", "e", "l",
                          "p">>, <<>>).s, conv),
                                  <<<<"stock_help", <<>>>>>>)
                      ELSE IF QuoteMatch(text)
                      THEN Served(JsonReply(StockAnswer(e, <<"q", "u", "o", "t", "e">>,
                                                Upper(Split(text)[2])).s, conv),
                                  <<<<"stock_quote", Upper(Split(text)[2])>>>>)
                      ELSE IF StockPriceMatch(low)
                      THEN Served(JsonReply(StockAnswer(e, <<"q", "u", "o", "t", "e">>,
                                     Upper(Split(text)[Len(Split(text))])).s, conv),
                                  <<<<"stock_quote",
                                      Upper(Split(text)[Len(Split(text))])>>>>)
                      ELSE IF CompareMatch(text)
                      THEN Served(JsonReply(StockAnswer(e, <<"c", "o", "m", "p",
                          "a", "r", "e">>,
                                     Upper(Split(text)[2]) \o <<",">> \o
                                     Upper(Split(text)[3])).s, conv),
                                  <<<<"stock_compare",
                                      <<Upper(Split(text)[2]), Upper(Split(text)[3])>>>>>>)
                      ELSE IF ArgMatch(<<"/", "w", "e", "a", "t", "h", "e",
                          "r">>, text).hit
                      THEN WeatherBranch(e, ArgMatch(<<"/", "w", "e", "a", "t", "h",
                          "e", "r">>, text).text, conv)
                      ELSE IF ArgMatch(<<"/", "a", "s", "k">>, text).hit
                      THEN AskBranch(e, ArgMatch(<<"/", "a", "s",
                          "k">>, text).text, conv)
                      ELSE ForwardBranch(e, d, message_text.s, conv)

\* send_message() for an OPTIONS request: the default options response with
\* the CORS headers.
OptionsResponse == [status_code |-> 200, json |-> NoneV]

\* A request: request.json and request.method
UiRequest(js, m) == [json |-> js, method |-> m]

\* The values of "message" in the request.
UiMessages ==
    {Str(<<"/", "h", "e", "l", "p">>), Str(<<" ", "/", "H", "E", "L", "P",
        " ">>), Str(<<"@", "s", "t", "o", "c", "k", " ", "h", "e", "l", "p">>),
     Str(<<"/", "q", "u", "o", "t", "e", " ", "a", "b">>), Str(<<"/", "q", "u", "o",
         "t", "e", " ", " ", "A", "b">>), Str(<<"/", "Q", "U", "O", "T", "E", " ",
             "a", "b">>), Str(<<"/", "q", "u", "o", "t", "e", " ", "a", "1">>),
     Str(<<"/", "q", "u", "o", "t", "e">>), Str(<<"@", "s", "t", "o", "c", "k", " ",
         "p", "r", "i", "c", "e", " ", "a", "b">>), Str(<<"@", "S", "t", "o", "c",
             "k", " ", " ", "P", "r", "i", "c", "e", " ", "A", "b">>),
     Str(<<"/", "c", "o", "m", "p", "a", "r", "e", " ", "a", "b", " ", "c", ".",
         "d">>), Str(<<"/", "c", "o", "m", "p", "a", "r", "e", " ", "a", "b">>),
     Str(<<"/", "w", "e", "a", "t", "h", "e", "r", " ", "x", " ", "y">>), Str(<<"/",
         "W", "E", "A", "T", "H", "E", "R", " ", "x">>), Str(<<"/", "w", "e", "a",
             "t", "h", "e", "r">>), Str(<<"/", "w", "e", "a", "t", "h", "e", "r",
                 " ", "a", "\n", "b">>),
     Str(<<"/", "a", "s", "k", " ", "q">>), Str(<<"/", "a", "s", "k">>),
     Str(<<"h", "i">>), Str(<<" ", "h", "i", " ">>), Str(<<>>), NoneV, IntV(3)}

\* request.json: nothing, or a mapping with or without a message, a
\* conversation id and a client id.
UiBodies ==
    {NoneV, Dict(EmptyD), D1("conversation_id", Str(<<"c", "1">>))}
    \cup {D1("message", m) : m \in UiMessages}
    \cup {D2("message", m, "conversation_id", Str(<<"c", "1">>)) : m \in UiMessages}
    \cup {D2("message", Str(<<"h", "i">>), "client_id", Str(<<"u", "2">>))}

UiGeo ==
    Dict(("name" :> Str(<<"X">>)) @@ ("admin1" :> NoneV) @@ ("country" :> Str(<<"Y">>))
         @@ ("lat" :> IntV(1)) @@ ("lon" :> IntV(2)))

UiEnvs ==
    {UiEnv(b, st, g, w, a) :
        b \in {"answers", "times out"}, st \in {<<"u", "p", " ">>, <<"d", "o", "w",
            "n", " ">>},
        g \in {NoneV, UiGeo}, w \in {NoneV, D1("current", Dict(EmptyD))},
        a \in {"no key", "raises", "empty", "text"}}

UiRequests ==
    {UiRequest(js, "POST") : js \in UiBodies} \cup {UiRequest(NoneV, "OPTIONS")}

InitUi ==
    /\ IdleExceptUi
    /\ ui_req \in UiRequests
    /\ ui_env \in UiEnvs
    /\ ui_pc = "request"
    /\ ui_calls = <<>>
    /\ ui_resp = NoneV

\* The handler serves a POST.
ApiSend ==
    /\ ui_pc = "request"
    /\ ui_req.method = "POST"
    /\ \E h \in {SendHandler(ui_req.json, ui_env)} :
          /\ ui_calls' = h.calls
          /\ ui_resp' = h.resp
    /\ ui_pc' = "served"
    /\ UNCHANGED <<ui_req, ui_env, exceptUi>>

\* The handler serves an OPTIONS request.
ApiSendOptions ==
    /\ ui_pc = "request"
    /\ ui_req.method = "OPTIONS"
    /\ ui_calls' = <<>>
    /\ ui_resp' = OptionsResponse
    /\ ui_pc' = "served"
    /\ UNCHANGED <<ui_req, ui_env, exceptUi>>

NextUi == ApiSend \/ ApiSendOptions

SpecUi == InitUi /\ [][NextUi]_vars

----------------------------------------------------------------------------
(* Command dispatch of /api/send, checked under SpecUi *)

UiMessage == ui_req.json.d["message"]

\* The request is a POST whose JSON mapping has a message.
CarriesMessage ==
    /\ ui_req.method = "POST"
    /\ IsDict(ui_req.json)
    /\ "message" \in DOMAIN ui_req.json.d

\* The message is one of the commands handled locally, in the form the
\* handler recognizes: surrounded by whitespace or not, /help, @stock help
\* and @stock price in any case.
LocalCommand(m) ==
    /\ IsStr(m)
    /\ \/ Lower(Strip(m.s)) \in {<<"/", "h", "e", "l", "p">>, <<"@", "s", "t", "o",
        "c", "k", " ", "h", "e", "l", "p">>}
       \/ QuoteMatch(Strip(m.s))
       \/ StockPriceMatch(Lower(Strip(m.s)))
       \/ CompareMatch(Strip(m.s))
       \/ ArgMatch(<<"/", "w", "e", "a", "t", "h", "e", "r">>, Strip(m.s)).hit
       \/ ArgMatch(<<"/", "a", "s", "k">>, Strip(m.s)).hit

BridgeCalls == {i \in 1..Len(ui_calls) : ui_calls[i][1] = "A2AClient.send_message"}

\* The request /quote <TICKER> for the ticker of the @stock price request
\* under way, with the other members of the request as they are.
AsQuoteRequest ==
    Dict([k \in DOMAIN ui_req.json.d |->
             IF k = "message"
             THEN Str(<<"/", "q", "u", "o", "t", "e", " ">> \o Split(UiMessage.s)[3])
             ELSE ui_req.json.d[k]])

\* C22: in the /api/send handler the stock commands and the other local
\* commands are handled locally and never contact the agent bridge, every
\* other request carrying a message is forwarded to the bridge exactly once
\* with the message text unmodified, and @stock price <TICKER> gives the
\* same response as /quote <TICKER>.
C22_CommandDispatch ==
    (ui_pc = "served" /\ CarriesMessage) =>
        /\ LocalCommand(UiMessage) => BridgeCalls = {}
        /\ ~LocalCommand(UiMessage) =>
              /\ Len(ui_calls) = 1
              /\ BridgeCalls = {1}
              /\ Str(ui_calls[1][3].text) = UiMessage
        /\ (IsStr(UiMessage) /\ StockPriceMatch(Lower(Strip(UiMessage.s)))) =>
              ui_resp = SendHandler(AsQuoteRequest, ui_env).resp

\* The commands are handled locally, and every other request whose message
\* is a string is forwarded once, unmodified.
DispatchOfStrings ==
    (ui_pc = "served" /\ CarriesMessage /\ IsStr(UiMessage)) => C22_CommandDispatch

\* A request whose message is not a string is answered with the error 500
\* and is not forwarded.
NonStringNotForwarded ==
    (ui_pc = "served" /\ CarriesMessage /\ ~IsStr(UiMessage)) =>
        /\ ui_calls = <<>>
        /\ ui_resp.status_code = 500

----------------------------------------------------------------------------
(* stock_service.py: quote, with LANG "en". A float is modelled by an      *)
(* integer.                                                                *)

\* _norm_ticker(t): (t or "").strip().upper()
NormTicker(t) == Upper(Strip(PyOr(t, Str(<<>>)).s))

QuoteUsage == WarnSign \o <<" ", "U", "s", "a", "g", "e", ":", " ", "/", "q", "u",
    "o", "t", "e", " ", "<", "T", "I", "C", "K", "E", "R", ">", " ", "e", ".", "g",
        ".", ",", " ", "/", "q", "u", "o", "t", "e", " ", "A", "A", "P", "L">>

QuoteUnable(t) ==
    WarnSign \o <<" ", "U", "n", "a", "b", "l", "e", " ", "t", "o", " ", "f", "e",
        "t", "c", "h", " ", "p", "r", "i", "c", "e", " ", "f", "o", "r", " ">> \o t
    \o <<" ", "(", "Y", "a", "h", "o", "o", " ", "u", "n", "r", "e", "a", "c", "h",
        "a", "b", "l", "e", " ", "a", "n", "d", " ", "S", "t", "o", "o", "q", " ",
            "f", "a", "l", "l", "b", "a", "c", "k", " ", "f", "a", "i", "l", "e",
                "d", ")", ".">>

\* The report: its title without the local time, then the last price and
\* the change price - (prev or 0); the table they are laid out in, the
\* market cap, the 52 week range and the note are not modelled.
QuoteReport(t, price, prev) ==
    <<"U+1F4C8", " ">> \o t \o <<" ", "U+2014", " ">> \o <<"S", "n", "a", "p", "s",
        "h", "o", "t", " ", "$">>
    \o IntToStr(price.n) \o <<" ">> \o IntToStr(price.n - PyOr(prev, IntV(0)).n)

\* What yf.Ticker(t) and tk.fast_info do: Ticker raises, fast_info raises,
\* or fast_info is a mapping (None when it is falsy) of which the first
\* reads many fi.get calls return before the next one raises (5: none of
\* the five calls raises).
FastInfos ==
    {NoneV, D1("last_price", IntV(7)), D1("last_price", IntV(0)),
     D1("previous_close", IntV(5)),
     D2("last_price", IntV(7), "previous_close", IntV(5)),
     D2("last_price", IntV(0), "previous_close", IntV(5)),
     D2("last_price", IntV(7), "previous_close", IntV(0))}

FastOutcomes ==
    {<<"Ticker raises", NoneV, 0>>, <<"fast_info raises", NoneV, 5>>}
    \cup {<<"fast_info", fi, reads>> : fi \in FastInfos, reads \in {0, 1, 2, 5}}

\* tk.history(period="5d", interval="1d"): raises, or the closes.
HistoryOutcomes ==
    {<<"raises", <<>>>>, <<"closes", <<>>>>, <<"closes", <<IntV(7)>>>>,
     <<"closes", <<IntV(0)>>>>, <<"closes", <<IntV(5), IntV(7)>>>>}

\* float(s) of a cell of digits; any other cell raises ValueError
IsNumber(s) == s # <<>> /\ \A i \in 1..Len(s) : \E d \in 1..10 : Digits[d] = s[i]

DigitValue(c) == (CHOOSE d \in 1..10 : Digits[d] = c) - 1

RECURSIVE ToFloat(_)
ToFloat(s) ==
    IF Len(s) = 1 THEN DigitValue(s[1])
    ELSE 10 * ToFloat(SubSeq(s, 1, Len(s) - 1)) + DigitValue(s[Len(s)])

\* _YF_SESSION.get(url, timeout=8): raises, or a response with its status,
\* its Content-Type and the Close cells of the rows of its CSV text (None
\* when the text has no Close column).
StooqResponse(st, ct, rows) == <<"response", st, ct, rows>>

StooqOutcomes ==
    {<<"raises", 0, NoneV, NoneV>>,
     StooqResponse(404, Str(<<"t", "e", "x", "t", "/", "h", "t", "m",
         "l">>), ListV(<<>>)),
     StooqResponse(200, Str(<<"a", "p", "p", "l", "i", "c", "a", "t", "i", "o", "n",
         "/", "j", "s", "o", "n">>), ListV(<<<<"7">>>>)),
     StooqResponse(200, NoneV, ListV(<<<<"7">>>>)),
     StooqResponse(200, Str(<<"t", "e", "x", "t", "/", "c", "s", "v">>), NoneV),
     StooqResponse(200, Str(<<"t", "e", "x", "t", "/", "c", "s", "v">>), ListV(<<>>)),
     StooqResponse(200, Str(<<"T", "e", "x", "t", "/", "P", "l", "a", "i",
         "n">>), ListV(<<<<"7">>>>)),
     StooqResponse(200, Str(<<"t", "e", "x", "t", "/", "c", "s",
         "v">>), ListV(<<<<"0">>>>)),
     StooqResponse(200, Str(<<"t", "e", "x", "t", "/", "c", "s",
         "v">>), ListV(<<<<>>>>)),
     StooqResponse(200, Str(<<"t", "e", "x", "t", "/", "c", "s",
         "v">>), ListV(<<<<"N", "/", "D">>>>)),
     StooqResponse(200, Str(<<"t", "e", "x", "t", "/", "c", "s",
         "v">>), ListV(<<<<"5">>, <<"7">>>>)),
     StooqResponse(200, Str(<<"t", "e", "x", "t", "/", "c", "s",
         "v">>), ListV(<<<<>>, <<"7">>>>)),
     StooqResponse(200, Str(<<"t", "e", "x", "t", "/", "c", "s",
         "v">>), ListV(<<<<"N", "/", "D">>, <<"7">>>>)),
     StooqResponse(200, Str(<<"t", "e", "x", "t", "/", "c", "s",
         "v">>), ListV(<<<<"5">>, <<>>>>))}

NoClose == <<NoneV, NoneV>>

\* _stooq_last_close(t) for the outcome o of the GET: (last, prev)
StooqLastClose(o) ==
    IF o[1] = "raises" THEN NoClose
    ELSE LET ctype == Lower(PyOr(o[3], Str(<<>>)).s)
             rows == o[4].l
             n == Len(rows)
         IN  IF ~(o[2] < 400) \/ (~Contains(<<"t", "e", "x",
             "t">>, ctype) /\ ~Contains(<<"c", "s", "v">>, ctype))
             THEN NoClose
             ELSE IF o[4] = NoneV THEN NoClose
             ELSE IF n = 0 THEN NoClose
             ELSE IF rows[n] # <<>> /\ ~IsNumber(rows[n]) THEN NoClose
             ELSE LET last == IF rows[n] # <<>> THEN IntV(ToFloat(rows[n])) ELSE NoneV
                  IN  IF n >= 2 /\ rows[n - 1] # <<>>
                      THEN IF IsNumber(rows[n - 1])
                           THEN <<last, IntV(ToFloat(rows[n - 1]))>>
                           ELSE NoClose
                      ELSE <<last, last>>

QuoteTickers == {NoneV, Str(<<>>), Str(<<" ">>), Str(<<" ", "a", "b",
    " ">>), Str(<<"A", "B">>)}

InitQuote ==
    /\ IdleExceptQuote
    /\ q_ticker \in QuoteTickers
    /\ q_pc = "call"
    /\ q_price = NoneV
    /\ q_prev = NoneV
    /\ q_log = <<>>
    /\ q_out = NoneV

\* quote(ticker) up to yf.Ticker(t): the usage text for an empty ticker.
QuoteCall ==
    /\ q_pc = "call"
    /\ IF NormTicker(q_ticker) = <<>>
       THEN /\ q_out' = Str(QuoteUsage)
            /\ q_pc' = "done"
       ELSE /\ q_out' = q_out
            /\ q_pc' = "yfinance"
    /\ UNCHANGED <<q_ticker, q_price, q_prev, q_log, exceptQuote>>

\* The end of quote with the locals price and prev, from the Stooq
\* fallback on: the position reached and the text returned.
QuoteEnd(price, prev) ==
    IF price = NoneV \/ prev = NoneV THEN <<"stooq", NoneV>>
    ELSE <<"done", Str(QuoteReport(NormTicker(q_ticker), price, prev))>>

\* yf.Ticker(t), tk.fast_info and the fi.get calls, up to tk.history or,
\* when the exception handler was entered or both values are there, to
\* the Stooq fallback or the return.
YfFastInfo ==
    /\ q_pc = "yfinance"
    /\ \E o \in FastOutcomes :
          LET fi == PyOr(o[2], Dict(EmptyD))
              price == IF o[3] >= 1 THEN Get(fi, "last_price") ELSE NoneV
              prev == IF o[3] >= 2 THEN Get(fi, "previous_close") ELSE NoneV
              excepted == o[1] = "Ticker raises" \/ (o[1] = "fast_info" /\ o[3] < 5)
          IN  /\ q_price' = price
              /\ q_prev' = prev
              /\ q_log' = Append(q_log, <<"yfinance", o[1], price>>)
              /\ IF ~excepted /\ (price = NoneV \/ prev = NoneV)
                 THEN /\ q_pc' = "history"
                      /\ q_out' = q_out
                 ELSE /\ q_pc' = QuoteEnd(price, prev)[1]
                      /\ q_out' = QuoteEnd(price, prev)[2]
    /\ UNCHANGED <<q_ticker, exceptQuote>>

\* tk.history(...) and the reading of its closes, up to the Stooq fallback
\* or the return.
YfHistory ==
    /\ q_pc = "history"
    /\ \E o \in HistoryOutcomes :
          LET n == Len(o[2])
              price == IF n >= 1 THEN o[2][n] ELSE q_price
              prev == IF n >= 2 THEN o[2][n - 1] ELSE IF n = 1 THEN o[2][n] ELSE q_prev
          IN  /\ q_price' = price
              /\ q_prev' = prev
              /\ q_log' = Append(q_log, <<"yfinance", "history",
                                          IF n >= 1 THEN o[2][n] ELSE NoneV>>)
              /\ q_pc' = QuoteEnd(price, prev)[1]
              /\ q_out' = QuoteEnd(price, prev)[2]
    /\ UNCHANGED <<q_ticker, exceptQuote>>

\* _stooq_last_close(t), price = price or s_last, prev = prev or s_prev,
\* and the return.
StooqFallback ==
    /\ q_pc = "stooq"
    /\ \E o \in StooqOutcomes :
          LET price == PyOr(q_price, StooqLastClose(o)[1])
              prev == PyOr(q_prev, StooqLastClose(o)[2])
          IN  /\ q_price' = price
              /\ q_prev' = prev
              /\ q_log' = Append(q_log, <<"stooq", o[1], StooqLastClose(o)[1]>>)
              /\ q_out' = IF price = NoneV
                          THEN Str(QuoteUnable(NormTicker(q_ticker)))
                          ELSE Str(QuoteReport(NormTicker(q_ticker), price, prev))
    /\ q_pc' = "done"
    /\ UNCHANGED <<q_ticker, exceptQuote>>

NextQuote == QuoteCall \/ YfFastInfo \/ YfHistory \/ StooqFallback

SpecQuote == InitQuote /\ [][NextQuote]_vars

----------------------------------------------------------------------------
(* Provider fallback of quote, checked under SpecQuote *)

QuoteT == NormTicker(q_ticker)

\* yfinance, through fast_info or the history, supplied a price.
YfSupplied == \E i \in 1..Len(q_log) : q_log[i][1] = "yfinance" /\ q_log[i][3] # NoneV

StooqConsulted == \E i \in 1..Len(q_log) : q_log[i][1] = "stooq"

StooqSupplied == \E i \in 1..Len(q_log) : q_log[i][1] = "stooq" /\ q_log[i][3] # NoneV

\* yfinance is consulted first, and Stooq is about to be consulted only when
\* yfinance left the last price or the previous close missing; nothing is
\* consulted after Stooq.
YfinanceFirst ==
    /\ q_log # <<>> => q_log[1][1] = "yfinance"
    /\ q_pc = "stooq" =>
          /\ q_price = NoneV \/ q_prev = NoneV
          /\ q_log # <<>> /\ ~StooqConsulted
    /\ StooqConsulted => q_pc = "done" /\ q_log[Len(q_log)][1] = "stooq"
    /\ \A i \in 1..(Len(q_log) - 1) : q_log[i][1] = "yfinance"

\* C23: quote(ticker) uses yfinance first and consults Stooq only when
\* yfinance left the last price or the previous close missing; it returns
\* the "Unable to fetch price" message exactly when neither yfinance (fast
\* info or history) nor Stooq supplied a price, and an exception from either
\* provider never propagates out of quote. (The ticker is one that reaches
\* the providers.)
C23_ProviderFallback ==
    /\ YfinanceFirst
    /\ (q_pc = "done" /\ QuoteT # <<>>) =>
          /\ IsStr(q_out)
          /\ q_out = Str(QuoteUnable(QuoteT)) <=> (~YfSupplied /\ ~StooqSupplied)

\* What the code does: the message is returned exactly when Stooq was
\* consulted and supplied no last close and yfinance left no price other
\* than 0.
UnableInCode ==
    (q_pc = "done" /\ QuoteT # <<>>) =>
        /\ IsStr(q_out)
        /\ q_out = Str(QuoteUnable(QuoteT)) <=>
              /\ StooqConsulted
              /\ ~StooqSupplied
              /\ \A i \in 1..Len(q_log) :
                    q_log[i][1] = "yfinance" => q_log[i][3] \in {NoneV, IntV(0)}

\* yfinance supplied the price 0 and no previous close, Stooq supplied
\* nothing, and the message was returned.
ZeroPriceDropped ==
    /\ q_pc = "done"
    /\ YfSupplied
    /\ ~StooqSupplied
    /\ q_out = Str(QuoteUnable(QuoteT))

----------------------------------------------------------------------------
(* run_ui_agent_https.py: /api/receive_message and /api/render on the
   threaded server (app.run(..., threaded=True)): each request runs in a
   thread of its own, and the threads share the file latest_message.json *)

\* The number of requests of each kind.
MaxRequests == 2

\* The file: <<>> when the name latest_message.json does not exist, else
\* <<file, content>>, where file identifies the file the name refers to (the
\* request that created it) and content is the JSON document it holds, or
\* EmptyText after open(..., "w") truncated it. The documents are made of
\* JSON values with string keys, which json.dump and json.load give back
\* unchanged.
NoFile == <<>>

EmptyText == Str(<<>>)

FileOf(file, content) == <<file, content>>

NoAnswer == [status_code |-> 0, json |-> NoneV]

RecvFrame(p, d, r, f, dc) == [pc |-> p, data |-> d, ret |-> r, fd |-> f, doc |-> dc]

RendFrame(p, r, ld) == [pc |-> p, ret |-> r, loaded |-> ld]

\* request.json of the i-th /api/receive_message request: no JSON body, or a
\* mapping whose message is not the message of any other request.
RecvBodies(i) ==
    {NoneV,
     Dict(("message" :> Str(<<"m", Digits[i + 1]>>)) @@ ("from_agent" :> Str(<<"a">>)))}

\* data.get(k, '')
DataGet(d, k) == IF k \in DOMAIN d.d THEN d.d[k] ELSE Str(<<>>)

\* requests.get(f"{reg_url}/sender/{from_agent}") and .json().get("sender_name"):
\* an exception, or the sender's name, or None without the key.
SenderLookups == {Raised(Exc(ConnectionErrorCls, <<"r">>)), Returned(Str(<<"S">>)), Returned(NoneV)}

\* The mapping json.dump writes.
LatestMessage(d, sender) ==
    Dict(("message" :> DataGet(d, "message")) @@ ("from_agent" :> DataGet(d, "from_agent"))
         @@ ("sender_name" :> sender)
         @@ ("conversation_id" :> DataGet(d, "conversation_id"))
         @@ ("timestamp" :> DataGet(d, "timestamp")))

\* jsonify({"status": "received"})
ReceivedResponse == [status_code |-> 200, json |-> D1("status", Str(<<"r", "e", "c",
    "e", "i", "v", "e", "d">>))]

\* jsonify(v)
Jsonify(v) == [status_code |-> 200, json |-> v]

\* str(e) of the exceptions of the two handlers
NoGetText == <<"'", "N", "o", "n", "e", "T", "y", "p", "e", "'", " ", "o", "b", "j",
    "e", "c", "t", " ", "h", "a", "s", " ", "n", "o", " ", "a", "t", "t", "r", "i",
        "b", "u", "t", "e", " ", "'", "g", "e", "t", "'">>

FileNotFoundText == <<"[", "E", "r", "r", "n", "o", " ", "2", "]", " ", "N", "o",
    " ", "s", "u", "c", "h", " ", "f", "i", "l", "e", " ", "o", "r", " ", "d", "i",
        "r", "e", "c", "t", "o", "r", "y", ":", " ", "'", "l", "a", "t", "e", "s",
            "t", "_", "m", "e", "s", "s", "a", "g", "e", ".", "j", "s", "o", "n", "'">>

JsonDecodeText == <<"E", "x", "p", "e", "c", "t", "i", "n", "g", " ", "v", "a", "l",
    "u", "e", ":", " ", "l", "i", "n", "e", " ", "1", " ", "c", "o", "l", "u", "m",
        "n", " ", "1", " ", "(", "c", "h", "a", "r", " ", "0", ")">>

InitSlot ==
    /\ IdleExceptSlot
    /\ slot_file = NoFile
    /\ slot_recv = <<>>
    /\ slot_rend = <<>>
    /\ slot_log = <<>>

\* A /api/receive_message request arrives and its thread starts.
ReceiveRequest ==
    /\ Len(slot_recv) < MaxRequests
    /\ \E d \in RecvBodies(Len(slot_recv) + 1) :
          slot_recv' = Append(slot_recv, RecvFrame("lookup", d, NoAnswer, 0, NoneV))
    /\ UNCHANGED <<slot_file, slot_rend, slot_log, exceptSlot>>

\* receive_message from data = request.json to the sender's name: data.get
\* raises on a missing body, and the lookup in the registry may raise.
ReceiveLookup(i) ==
    /\ slot_recv[i].pc = "lookup"
    /\ \E o \in SenderLookups :
          slot_recv' =
              [slot_recv EXCEPT ![i] =
                  IF @.data = NoneV
                  THEN [@ EXCEPT !.pc = "done", !.ret = JsonError(NoGetText, 500)]
                  ELSE IF ~o.ok
                  THEN [@ EXCEPT !.pc = "done", !.ret = JsonError(o.exc.msg, 500)]
                  ELSE [@ EXCEPT !.pc = "open", !.doc = LatestMessage(slot_recv[i].data, o.resp)]]
    /\ UNCHANGED <<slot_file, slot_rend, slot_log, exceptSlot>>

\* open(message_file, "w"): the file is created, or the file the name
\* refers to is truncated.
ReceiveOpen(i) ==
    /\ slot_recv[i].pc = "open"
    /\ \E file \in {IF slot_file = NoFile THEN i ELSE slot_file[1]} :
          /\ slot_file' = FileOf(file, EmptyText)
          /\ slot_recv' = [slot_recv EXCEPT ![i] = [@ EXCEPT !.pc = "write", !.fd = file]]
    /\ slot_log' =
          IF slot_file # NoFile /\ slot_file[2] # EmptyText
          THEN Append(slot_log, <<"overwrite", i, slot_file[2]>>)
          ELSE slot_log
    /\ UNCHANGED <<slot_rend, exceptSlot>>

\* json.dump(..., f), the end of the with block, and the return: the document
\* reaches the file that was opened, which the name may no longer refer to.
ReceiveWrite(i) ==
    /\ slot_recv[i].pc = "write"
    /\ slot_recv' = [slot_recv EXCEPT ![i] = [@ EXCEPT !.pc = "done", !.ret = ReceivedResponse]]
    /\ IF slot_file # NoFile /\ slot_file[1] = slot_recv[i].fd
       THEN /\ slot_file' = FileOf(slot_file[1], slot_recv[i].doc)
            /\ slot_log' =
                  IF slot_file[2] # EmptyText
                  THEN Append(slot_log, <<"overwrite", i, slot_file[2]>>)
                  ELSE slot_log
       ELSE /\ slot_log' = Append(slot_log, <<"unlinked", i, slot_recv[i].doc>>)
            /\ UNCHANGED slot_file
    /\ UNCHANGED <<slot_rend, exceptSlot>>

\* A /api/render request arrives and its thread starts.
RenderRequest ==
    /\ Len(slot_rend) < MaxRequests
    /\ slot_rend' = Append(slot_rend, RendFrame("exists", NoAnswer, NoneV))
    /\ UNCHANGED <<slot_file, slot_recv, slot_log, exceptSlot>>

\* if not os.path.exists(message_file): return jsonify({})
RenderExists(j) ==
    /\ slot_rend[j].pc = "exists"
    /\ slot_rend' =
          [slot_rend EXCEPT ![j] =
              IF slot_file = NoFile
              THEN [@ EXCEPT !.pc = "done", !.ret = Jsonify(Dict(EmptyD))]
              ELSE [@ EXCEPT !.pc = "load"]]
    /\ UNCHANGED <<slot_file, slot_recv, slot_log, exceptSlot>>

\* latest_message = json.load(open(message_file))
RenderLoad(j) ==
    /\ slot_rend[j].pc = "load"
    /\ slot_rend' =
          [slot_rend EXCEPT ![j] =
              IF slot_file = NoFile
              THEN [@ EXCEPT !.pc = "done", !.ret = JsonError(FileNotFoundText, 500)]
              ELSE IF slot_file[2] = EmptyText
              THEN [@ EXCEPT !.pc = "done", !.ret = JsonError(JsonDecodeText, 500)]
              ELSE [@ EXCEPT !.pc = "remove", !.loaded = slot_file[2]]]
    /\ UNCHANGED <<slot_file, slot_recv, slot_log, exceptSlot>>

\* os.remove(message_file); return jsonify(latest_message)
RenderRemove(j) ==
    /\ slot_rend[j].pc = "remove"
    /\ IF slot_file = NoFile
       THEN /\ slot_rend' =
                  [slot_rend EXCEPT ![j] =
                      [@ EXCEPT !.pc = "done", !.ret = JsonError(FileNotFoundText, 500)]]
            /\ UNCHANGED <<slot_file, slot_log>>
       ELSE /\ slot_rend' =
                  [slot_rend EXCEPT ![j] =
                      [@ EXCEPT !.pc = "done", !.ret = Jsonify(slot_rend[j].loaded)]]
            /\ slot_file' = NoFile
            /\ slot_log' = Append(slot_log, <<"remove", j, slot_file[2], slot_rend[j].loaded>>)
    /\ UNCHANGED <<slot_recv, exceptSlot>>

ReceiveStep ==
    \E i \in 1..Len(slot_recv) : ReceiveLookup(i) \/ ReceiveOpen(i) \/ ReceiveWrite(i)

RenderStep ==
    \E j \in 1..Len(slot_rend) : RenderExists(j) \/ RenderLoad(j) \/ RenderRemove(j)

NextSlot == ReceiveRequest \/ ReceiveStep \/ RenderRequest \/ RenderStep

SpecSlot == InitSlot /\ [][NextSlot]_vars

----------------------------------------------------------------------------
(* The latest-message slot under concurrent requests, checked under SpecSlot *)

\* The removals of latest_message.json: <<"remove", request, content removed,
\* document loaded and returned>>.
Removals == {k \in 1..Len(slot_log) : slot_log[k][1] = "remove"}

\* The receive requests that answered {"status": "received"}.
Received == {i \in 1..Len(slot_recv) : slot_recv[i].ret = ReceivedResponse}

InSlot(doc) == slot_file # NoFile /\ slot_file[2] = doc

ReturnedByRender(doc) ==
    \E j \in 1..Len(slot_rend) : slot_rend[j].pc = "done" /\ slot_rend[j].ret = Jsonify(doc)

OverwrittenByReceive(doc) ==
    \E k \in 1..Len(slot_log) : slot_log[k][1] = "overwrite" /\ slot_log[k][3] = doc

\* What a render removes is what it returns.
RemovedIsReturned == \A k \in Removals : slot_log[k][3] = slot_log[k][4]

\* A received message is in the slot, or was returned by a render, or was
\* overwritten by a receive.
NoMessageLost ==
    \A i \in Received :
        \/ InSlot(slot_recv[i].doc)
        \/ ReturnedByRender(slot_recv[i].doc)
        \/ OverwrittenByReceive(slot_recv[i].doc)

\* C24: for any interleaving of /api/receive_message and /api/render
\* requests on the threaded server, the message a render request removes
\* from the latest-message slot is the message that render returns: no
\* received message is deleted without having been returned by a render,
\* unless a later receive overwrote it.
C24_RenderReturnsRemoved == RemovedIsReturned /\ NoMessageLost

\* A render returned one received message and removed another, which no
\* render returned and no receive overwrote.
RemovedOtherMessage ==
    \E k \in Removals :
        /\ slot_log[k][3] # EmptyText
        /\ slot_log[k][3] # slot_log[k][4]
        /\ ~ReturnedByRender(slot_log[k][3])
        /\ ~OverwrittenByReceive(slot_log[k][3])
        /\ \A j \in 1..Len(slot_rend) : slot_rend[j].pc = "done"
        /\ \A i \in 1..Len(slot_recv) : slot_recv[i].pc = "done"

\* A receive answered "received" although its document went to a file a
\* render had removed in the meantime.
WrittenToUnlinked ==
    \E k \in 1..Len(slot_log) :
        /\ slot_log[k][1] = "unlinked"
        /\ slot_log[k][2] \in Received

\* What the code does keep: a render answers 200 with a document only if it
\* removed the file, and the document is one a receive wrote earlier.
RenderReturnsReceived ==
    \A j \in 1..Len(slot_rend) :
        (slot_rend[j].pc = "done" /\ slot_rend[j].ret.status_code = 200
            /\ slot_rend[j].ret.json # Dict(EmptyD)) =>
            /\ \E k \in Removals : slot_log[k][2] = j /\ slot_log[k][4] = slot_rend[j].ret.json
            /\ \E i \in Received : slot_recv[i].doc = slot_rend[j].ret.json

----------------------------------------------------------------------------
(* run_ui_agent_https.py: add_message_to_queue and the generator of
   /api/messages/stream, for one client registered in client_queues with a
   queue.Queue and a threading.Event *)

\* The number of add_message_to_queue calls.
MaxMessages == 3

\* The message of the a-th call.
AdderMessage(a) == Str(<<"m", Digits[a + 1]>>)

AdderFrame(p, m) == [pc |-> p, msg |-> m]

\* json.dumps of a string of plain characters
JsonDumps(v) == <<"\"">> \o v.s \o <<"\"">>

\* f"data: {json.dumps(message)}\n\n"
SseData(m) == <<"d", "a", "t", "a", ":", " ">> \o JsonDumps(m) \o <<"\n", "\n">>

\* The stream was requested for the registered client and the response
\* holds the generator, which has not run yet.
InitSse ==
    /\ IdleExceptSse
    /\ sse_queue = <<>>
    /\ sse_event = FALSE
    /\ sse_gen = "start"
    /\ sse_adders = <<>>
    /\ sse_yielded = <<>>

\* add_message_to_queue(client_id, message) is called: client_id is in
\* client_queues.
AddCall ==
    /\ Len(sse_adders) < MaxMessages
    /\ sse_adders' = Append(sse_adders, AdderFrame("put", AdderMessage(Len(sse_adders) + 1)))
    /\ UNCHANGED <<sse_queue, sse_event, sse_gen, sse_yielded, exceptSse>>

\* client_queues[client_id]['queue'].put(message)
AddPut(a) ==
    /\ sse_adders[a].pc = "put"
    /\ sse_queue' = Append(sse_queue, sse_adders[a].msg)
    /\ sse_adders' = [sse_adders EXCEPT ![a] = [@ EXCEPT !.pc = "set"]]
    /\ UNCHANGED <<sse_event, sse_gen, sse_yielded, exceptSse>>

\* client_queues[client_id]['event'].set()
AddSet(a) ==
    /\ sse_adders[a].pc = "set"
    /\ sse_event' = TRUE
    /\ sse_adders' = [sse_adders EXCEPT ![a] = [@ EXCEPT !.pc = "done"]]
    /\ UNCHANGED <<sse_queue, sse_gen, sse_yielded, exceptSse>>

\* generate() up to the loop: the queue and the event of the client
GenStart ==
    /\ sse_gen = "start"
    /\ sse_gen' = "wait"
    /\ UNCHANGED <<sse_queue, sse_event, sse_adders, sse_yielded, exceptSse>>

\* event.wait() returns once the event is set, and leaves it set.
GenWait ==
    /\ sse_gen = "wait"
    /\ sse_event
    /\ sse_gen' = "drain"
    /\ UNCHANGED <<sse_queue, sse_event, sse_adders, sse_yielded, exceptSse>>

\* while not queue.empty(): message = queue.get(); yield ...
GenYield ==
    /\ sse_gen = "drain"
    /\ sse_queue # <<>>
    /\ sse_yielded' = Append(sse_yielded, SseData(Head(sse_queue)))
    /\ sse_queue' = Tail(sse_queue)
    /\ UNCHANGED <<sse_event, sse_gen, sse_adders, exceptSse>>

\* queue.empty() holds: the inner loop ends.
GenDrained ==
    /\ sse_gen = "drain"
    /\ sse_queue = <<>>
    /\ sse_gen' = "clear"
    /\ UNCHANGED <<sse_queue, sse_event, sse_adders, sse_yielded, exceptSse>>

\* event.clear(), and back to event.wait()
GenClear ==
    /\ sse_gen = "clear"
    /\ sse_event' = FALSE
    /\ sse_gen' = "wait"
    /\ UNCHANGED <<sse_queue, sse_adders, sse_yielded, exceptSse>>

AddStep == \E a \in 1..Len(sse_adders) : AddPut(a) \/ AddSet(a)

GenStep == GenStart \/ GenWait \/ GenYield \/ GenDrained \/ GenClear

NextSse == AddCall \/ AddStep \/ GenStep

SpecSse == InitSse /\ [][NextSse]_vars

\* Fair scheduling: the thread of the generator and the threads inside
\* add_message_to_queue keep running while they can; nothing obliges the
\* program to add another message.
FairSpecSse == SpecSse /\ WF_vars(GenStep) /\ WF_vars(AddStep)

----------------------------------------------------------------------------
(* Delivery of the queued messages, checked under FairSpecSse *)

Called(a) == a <= Len(sse_adders)

Yielded(a) == \E k \in 1..Len(sse_yielded) : sse_yielded[k] = SseData(AdderMessage(a))

\* C25: for a registered client with an open /api/messages/stream
\* generator, every message passed to add_message_to_queue is eventually
\* yielded by the generator under fair scheduling, without requiring any
\* later message to be added, for every interleaving of
\* add_message_to_queue (put, then set the event) with the generator's loop
\* (wait, drain the queue, clear the event).
C25_EveryMessageYielded == \A a \in 1..MaxMessages : Called(a) ~> Yielded(a)

\* The generator waits on a cleared event while a message is in the queue
\* and every call of add_message_to_queue has returned.
LostWakeup ==
    /\ sse_gen = "wait"
    /\ ~sse_event
    /\ sse_queue # <<>>
    /\ \A a \in 1..Len(sse_adders) : sse_adders[a].pc = "done"

\* What the code does keep: a message is yielded at most once, only after
\* it was put, and what was put and not yielded is still in the queue.
YieldedOnce ==
    \A a \in 1..MaxMessages :
        /\ Cardinality({k \in 1..Len(sse_yielded) : sse_yielded[k] = SseData(AdderMessage(a))}) <= 1
        /\ Yielded(a) => Called(a) /\ sse_adders[a].pc # "put"
        /\ (Called(a) /\ sse_adders[a].pc # "put" /\ ~Yielded(a)) =>
              \E k \in 1..Len(sse_queue) : sse_queue[k] = AdderMessage(a)

----------------------------------------------------------------------------
(* run_ui_agent_https.py: _register_with_registry(agent_id, public_url,
   registry_url, tries). The print calls write to a standard output that
   accepts them. *)

\* The largest value of tries.
MaxTries == 2

\* paths
RegPaths == <<<<"/", "r", "e", "g", "i", "s", "t", "e", "r">>, <<"/", "a", "p", "i",
    "/", "r", "e", "g", "i", "s", "t", "e", "r">>, <<"/", "a", "g", "e", "n", "t",
        "s", "/", "r", "e", "g", "i", "s", "t", "e", "r">>, <<"/", "a", "p", "i",
            "/", "a", "g", "e", "n", "t", "s", "/", "r", "e", "g", "i", "s", "t",
                "e", "r">>>>

RegArgs(agent, public, registry, tries) == <<agent, public, registry, tries>>

RegAgentId == reg_args[1]

RegPublicUrl == reg_args[2]

RegRegistryUrl == reg_args[3]

RegTries == reg_args[4]

\* not registry_url or not public_url or not agent_id
RegMissing(args) == ~Truthy(args[3]) \/ ~Truthy(args[2]) \/ ~Truthy(args[1])

\* registry_url.rstrip("/") + p
RegUrl(registry, p) == RStripSet(registry.s, {"/"}) \o RegPaths[p]

\* Faulty variant of RegOk: a status of 300 counts as registered.
RegOk_UpTo300(status) == status <= 300

\* r.status_code < 300
RegOk(status) == status < 300

\* requests.post(url, json=payload, timeout=10): an exception, or a
\* response with its status code.
RegOutcomes == {<<"raises", 0>>, <<"response", 200>>, <<"response", 299>>, <<"response", 300>>}

RegOptStrings(v) == {NoneV, Str(<<>>), Str(v)}

InitReg ==
    /\ IdleExceptReg
    /\ \E agent \in RegOptStrings(<<"a", "1">>) :
       \E public \in RegOptStrings(<<"p">>) :
       \E registry \in RegOptStrings(<<"r">>) \cup {Str(<<"r", "/", "/">>)} :
       \E tries \in 0..MaxTries :
          reg_args = RegArgs(agent, public, registry, tries)
    /\ reg_pc = "call"
    /\ reg_attempt = 0
    /\ reg_path = 0
    /\ reg_posts = <<>>
    /\ reg_ret = "none"

\* After the paths of one attempt, or before the first one: the next
\* attempt of range(1, tries + 1), or the return of False.
RegNextAttempt(attempt) ==
    IF attempt <= RegTries
    THEN /\ reg_pc' = "post"
         /\ reg_attempt' = attempt
         /\ reg_path' = 1
         /\ reg_ret' = "none"
    ELSE /\ reg_pc' = "done"
         /\ reg_ret' = "False"
         /\ UNCHANGED <<reg_attempt, reg_path>>

\* The call up to the first requests.post: False when a value is missing.
RegCall ==
    /\ reg_pc = "call"
    /\ IF RegMissing(reg_args)
       THEN /\ reg_pc' = "done"
            /\ reg_ret' = "False"
            /\ UNCHANGED <<reg_attempt, reg_path>>
       ELSE RegNextAttempt(1)
    /\ UNCHANGED <<reg_args, reg_posts, exceptReg>>

\* One requests.post and what follows it: True on a status below 300,
\* else the next path, or time.sleep after the last path.
RegPost ==
    /\ reg_pc = "post"
    /\ \E o \in RegOutcomes :
          /\ reg_posts' = Append(reg_posts, <<"post", RegUrl(RegRegistryUrl, reg_path), o>>)
          /\ IF o[1] = "response" /\ RegOk(o[2])
             THEN /\ reg_pc' = "done"
                  /\ reg_ret' = "True"
                  /\ UNCHANGED <<reg_attempt, reg_path>>
             ELSE IF reg_path < Len(RegPaths)
             THEN /\ reg_path' = reg_path + 1
                  /\ UNCHANGED <<reg_pc, reg_attempt, reg_ret>>
             ELSE /\ reg_pc' = "sleep"
                  /\ UNCHANGED <<reg_attempt, reg_path, reg_ret>>
    /\ UNCHANGED <<reg_args, exceptReg>>

\* time.sleep(2 * attempt), then the next attempt or the return of False
RegSleep ==
    /\ reg_pc = "sleep"
    /\ reg_posts' = Append(reg_posts, <<"sleep", 2 * reg_attempt>>)
    /\ RegNextAttempt(reg_attempt + 1)
    /\ UNCHANGED <<reg_args, exceptReg>>

NextReg == RegCall \/ RegPost \/ RegSleep

SpecReg == InitReg /\ [][NextReg]_vars

\* The call keeps running: requests.post returns or raises within its
\* timeout, and time.sleep returns.
FairSpecReg == SpecReg /\ WF_vars(RegCall) /\ WF_vars(RegPost) /\ WF_vars(RegSleep)

----------------------------------------------------------------------------
(* Registration with the registry, checked under FairSpecReg *)

IsPostEntry(e) == e[1] = "post"

\* The requests.post calls made so far, in order.
RegPostCalls == SelectSeq(reg_posts, IsPostEntry)

\* The POST answered with a status below 300.
Answered2xx(e) == IsPostEntry(e) /\ e[3][1] = "response" /\ e[3][2] < 300

\* The agent id, the public URL or the registry URL is missing.
AnyMissing == \E k \in 1..3 : reg_args[k] \in {NoneV, Str(<<>>)}

\* True is returned exactly when some POST answered below 300.
TrueIffAnswered2xx ==
    /\ reg_pc = "done" =>
          (reg_ret = "True" <=> \E k \in 1..Len(reg_posts) : Answered2xx(reg_posts[k]))
    /\ reg_pc = "done" <=> reg_ret # "none"

\* Nothing is posted, and nothing else is done, after such an answer.
NoPostAfter2xx ==
    \A k \in 1..Len(reg_posts) :
        Answered2xx(reg_posts[k]) => k = Len(reg_posts) /\ reg_pc = "done"

\* With a value missing there is no POST and the result is False.
MissingNoPost ==
    AnyMissing => reg_posts = <<>> /\ reg_ret \in {"none", "False"}

\* The k-th POST goes to the path k of the round, the rounds are at most
\* tries, and without an answer below 300 all 4 * tries POSTs are made
\* before False is returned.
FixedPathOrder ==
    ~AnyMissing =>
        /\ \A k \in 1..Len(RegPostCalls) :
              RegPostCalls[k][2] = <<"r">> \o RegPaths[((k - 1) % 4) + 1]
        /\ Len(RegPostCalls) <= 4 * RegTries
        /\ reg_ret = "False" => Len(RegPostCalls) = 4 * RegTries

\* C26: _register_with_registry returns True exactly when some registration
\* POST answered with a status below 300 and makes no POST after the first
\* such answer; it makes no POST at all and returns False when the agent
\* id, public URL or registry URL is missing; otherwise it tries the four
\* candidate paths in fixed order in each of `tries` rounds (at most
\* 4 x tries POSTs, an exception or a status of 300 or above moving on to
\* the next path) and then terminates with False.
C26_Registration ==
    /\ []TrueIffAnswered2xx
    /\ []NoPostAfter2xx
    /\ []MissingNoPost
    /\ []FixedPathOrder
    /\ <>(reg_pc = "done")

\* With tries = 2 and the registry URL "r//": the first round fails on an
\* exception and on statuses of 300, and the second POST of the second
\* round answers 299.
C26_Witness ==
    /\ reg_pc = "done"
    /\ reg_ret = "True"
    /\ RegTries = 2
    /\ RegRegistryUrl = Str(<<"r", "/", "/">>)
    /\ Len(RegPostCalls) = 6
    /\ RegPostCalls[1][3] = <<"raises", 0>>
    /\ RegPostCalls[2][3] = <<"response", 300>>
    /\ reg_posts[5] = <<"sleep", 2>>
    /\ RegPostCalls[6] = <<"post", <<"r", "/", "a", "p", "i", "/", "r", "e", "g",
        "i", "s", "t", "e", "r">>, <<"response", 299>>>>

=============================================================================
